---- MODULE Spec2Model ----
(***************************************************************************)
(* A model of the message-analysis and task-dispatch pipeline:             *)
(*   task_manager.py     TodoistManager, NotionManager, TaskOrchestrator   *)
(*   mention_tracker.py  handle_message and the mention commands           *)
(*   simple_analyzer.py  SimpleMessageAnalyzer                             *)
(*   llama_analyzer.py   LlamaMessageAnalyzer                              *)
(*   message_analyzer.py MessageAnalyzer                                   *)
(*   slack_bot.py        analyze_and_create_tasks, the settings actions    *)
(*                                                                         *)
(* The specifications share the variables; each leaves the variables of    *)
(* the other components at their initial values:                           *)
(*   SpecOrch     one TaskOrchestrator and its backends                    *)
(*   SpecOrchLive the same, a running create_task call taking its steps    *)
(*   SpecMention  the mention tracker's module-level state                 *)
(*   SpecTracker  the mention tracker's handlers in two listener threads   *)
(*   SpecAnalyze  the three analyzers                                      *)
(*   SpecPipeline slack_bot.py from the message to the backend requests    *)
(*   SpecPrefs    the settings actions in two listener threads             *)
(*                                                                         *)
(* A Python str is a sequence of one-character strings, so that `in`,      *)
(* lower(), slicing and the regular expressions are computed on            *)
(* characters as the code computes them.  Confidence values are held in    *)
(* hundredths (0.7 is 70).  A calendar date is its proleptic Gregorian     *)
(* ordinal (date.toordinal()).                                             *)
(***************************************************************************)
EXTENDS Integers, Sequences, FiniteSets, TLC

VARIABLES
    config,         \* config.py: which credentials / flags the environment sets
    managers,       \* TaskOrchestrator.managers: class names, registration order
    orchPc,         \* where the orchestrator is: new, idle, loop, waiting,
                    \* done, raised
    orchTask,       \* the task_data of the create_task call in progress
    orchIdx,        \* position of the for loop of create_task in managers
    results,        \* the results list of the create_task call in progress
    callLog,        \* every manager.create_task call of that call that came
                    \* back (returned or raised), in order
    tracked_users,  \* mention_tracker.tracked_users
    user_mentions,  \* mention_tracker.user_mentions
    otherCount,     \* events delivered so far other than the standard mention
    recorded,       \* per user, the ts of every record appended since the
                    \* user's history was last cleared
    ma,             \* the MessageAnalyzer object of slack_bot.py
    llamaInits,     \* how many times LlamaMessageAnalyzer() was attempted
    call,           \* the analyzer call that returned last, with its result
    botPc,          \* where analyze_and_create_tasks is: idle, analyzed, loop,
                    \* waiting, returned, raised
    botAnalysis,    \* its local `analysis`
    botIdx,         \* position of its for loop in the tasks of the analysis
    botCreated,     \* its local created_count
    botLog,         \* what it has done for the message so far, in order: the
                    \* analysis, then each task_orchestrator.create_task call
                    \* with the requests that call sent to the backends
    workers,        \* mention_tracker.py: per listener thread, the handler it
                    \* runs, where it is in it, and the handler's locals
    user_preferences,   \* slack_bot.user_preferences: per user, the dict
                    \* object stored for the user (0: no entry)
    dicts,          \* the preference dict objects created so far
    listeners       \* slack_bot.py: per listener thread, the action handler
                    \* it runs, where it is in it, and the handler's locals

vars == << config, managers, orchPc, orchTask, orchIdx, results, callLog,
           tracked_users, user_mentions, otherCount, recorded,
           ma, llamaInits, call,
           botPc, botAnalysis, botIdx, botCreated, botLog,
           workers, user_preferences, dicts, listeners >>

orchVars == << managers, orchPc, orchTask, orchIdx, results, callLog >>
mentionVars == << tracked_users, user_mentions, otherCount, recorded >>
analyzeVars == << ma, llamaInits, call >>
botVars == << botPc, botAnalysis, botIdx, botCreated, botLog >>
prefsVars == << user_preferences, dicts, listeners >>

\* what an orchestrator step leaves alone
OrchFrame ==
    UNCHANGED << config, mentionVars, analyzeVars, botVars, workers, prefsVars >>

----------------------------------------------------------------------------
(* Bounds of the model.                                                    *)

\* most backends ever registered with one orchestrator
MaxBackends == 2

\* the largest ts of a message event delivered to the mention tracker
MaxEvents == 103

\* most events of one run that are not the standard mention
MaxOther == 1

\* listener threads that handle events at the same time
MaxWorkers == 2

----------------------------------------------------------------------------
(* config.py                                                               *)

\* Each credential is either set (TRUE) or the empty default (FALSE).
Configs ==
    [ todoist_api_key : BOOLEAN, notion_api_key : BOOLEAN,
      openai_api_key : BOOLEAN, use_simple_analyzer : BOOLEAN ]

----------------------------------------------------------------------------
(* task_manager.py                                                         *)

NoValue == "absent"

\* A Python dict with str keys: the function from the keys it has to their
\* values.  Dict(r) is the dict with the keys of r whose value is set.
Dict(r) == [ k \in { f \in DOMAIN r : r[f] # NoValue } |-> r[k] ]

\* The task dicts handed to create_task.  A key may be absent; due_date may
\* be present and None.
Tasks ==
    { Dict(r) : r \in [ title : {"Review budget"},
                        priority : {NoValue, "urgent", "bogus"},
                        due_date : {NoValue, "None", "2025-06-06"} ] }

\* dict.get(key, default)
DictGet(d, key, default) == IF key \in DOMAIN d THEN d[key] ELSE default

\* What the HTTP layer does with one request: the connection fails
\* (requests raises), or a response arrives with a status and a body that
\* is JSON or is not.
HttpResponses ==
    { [kind |-> "neterr", status |-> 0, body |-> "connection refused"] }
    \cup [ kind : {"http"}, status : {200, 401}, body : {"{id}", "<html>"} ]

IsJson(body) == body = "{id}"

Returned(v) == [raised |-> FALSE, exc |-> "", value |-> v]
Raised(cls, msg) == [raised |-> TRUE, exc |-> cls, value |-> msg]

\* priority_map.get(task.get("priority", "medium"), 2)
TodoistPriority(task) ==
    LET p == DictGet(task, "priority", "medium")
    IN  CASE p = "low" -> 1
          [] p = "medium" -> 2
          [] p = "high" -> 3
          [] p = "urgent" -> 4
          [] OTHER -> 2

TodoistRequest(task) ==
    [ url |-> "https://api.todoist.com/rest/v2/tasks",
      content |-> DictGet(task, "title", ""),
      priority |-> TodoistPriority(task),
      due_string |-> DictGet(task, "due_date", "today") ]

\* TodoistManager.create_task: the outcome, given what the HTTP layer does.
TodoistCreateTask(task, resp) ==
    IF resp.kind = "neterr"
    THEN Raised("ConnectionError", resp.body)
    ELSE IF resp.status = 200
         THEN IF IsJson(resp.body)
              THEN Returned(resp.body)
              ELSE Raised("JSONDecodeError", resp.body)
         ELSE Raised("Exception", "Failed to create Todoist task: " \o resp.body)

NotionRequest(task) ==
    [ url |-> "https://api.notion.com/v1/pages",
      content |-> DictGet(task, "title", ""),
      priority |-> DictGet(task, "priority", "medium"),
      due_string |-> DictGet(task, "due_date", "now") ]

\* NotionManager.create_task
NotionCreateTask(task, resp) ==
    IF resp.kind = "neterr"
    THEN Raised("ConnectionError", resp.body)
    ELSE IF resp.status = 200
         THEN IF IsJson(resp.body)
              THEN Returned(resp.body)
              ELSE Raised("JSONDecodeError", resp.body)
         ELSE Raised("Exception", "Failed to create Notion task: " \o resp.body)

BackendClasses == {"TodoistManager", "NotionManager"}

\* manager.create_task(task_data), dispatched on the manager's class
ManagerCreateTask(manager, task, resp) ==
    IF manager = "TodoistManager"
    THEN TodoistCreateTask(task, resp)
    ELSE NotionCreateTask(task, resp)

ManagerRequest(manager, task) ==
    IF manager = "TodoistManager" THEN TodoistRequest(task) ELSE NotionRequest(task)

\* The classes `except Exception` catches: every exception a backend raises
\* derives from Exception.
ExceptionSubclasses == {"Exception", "ConnectionError", "JSONDecodeError"}

CaughtOnlyPlainException(exc) == exc = "Exception"

CaughtByOrchestrator(exc) == exc \in ExceptionSubclasses

OutcomeSwapped(manager, out) ==
    IF out.raised
    THEN [platform |-> manager, success |-> TRUE, data |-> out.value, error |-> NoValue]
    ELSE [platform |-> manager, success |-> FALSE, data |-> NoValue, error |-> out.value]

\* The dict appended to results for one manager (lines 201-211).
Outcome(manager, out) ==
    IF out.raised
    THEN [platform |-> manager, success |-> FALSE, data |-> NoValue, error |-> out.value]
    ELSE [platform |-> manager, success |-> TRUE, data |-> out.value, error |-> NoValue]

\* orchTask while no create_task call is running
NoTask == [ no_call |-> TRUE ]

\* TaskOrchestrator.__init__
OrchInit ==
    /\ orchPc = "new"
    /\ managers' = IF config.todoist_api_key THEN << "TodoistManager" >> ELSE << >>
    /\ orchPc' = "idle"
    /\ UNCHANGED << orchTask, orchIdx, results, callLog >>
    /\ OrchFrame

\* self.managers.append(<manager>): how a backend gets into the registry
\* (line 187, and line 191 once a database id is set).
RegisterBackend(b) ==
    /\ orchPc = "idle"
    /\ Len(managers) < MaxBackends
    /\ managers' = Append(managers, b)
    /\ UNCHANGED << orchPc, orchTask, orchIdx, results, callLog >>
    /\ OrchFrame

\* create_task is entered: results = []
CreateTaskBegin(task) ==
    /\ orchPc = "idle"
    /\ orchTask' = task
    /\ results' = << >>
    /\ callLog' = << >>
    /\ orchIdx' = 1
    /\ orchPc' = "loop"
    /\ UNCHANGED managers
    /\ OrchFrame

InsertFirst(rs, r) == << r >> \o rs

\* results.append(...)
ListAppend(rs, r) == Append(rs, r)

\* One iteration of the for loop: the manager at orchIdx is called, the HTTP
\* layer answers with resp, and the try/except appends one dict, or the
\* exception leaves create_task.
CreateTaskCall(resp) ==
    /\ orchPc = "loop"
    /\ orchIdx <= Len(managers)
    /\ LET manager == managers[orchIdx]
           out == ManagerCreateTask(manager, orchTask, resp)
       IN  /\ callLog' = Append(callLog,
                  [idx |-> orchIdx, manager |-> manager,
                   request |-> ManagerRequest(manager, orchTask),
                   resp |-> resp, out |-> out])
           /\ IF out.raised /\ ~CaughtByOrchestrator(out.exc)
              THEN /\ orchPc' = "raised"
                   /\ UNCHANGED << results, orchIdx >>
              ELSE /\ results' = ListAppend(results, Outcome(manager, out))
                   /\ orchIdx' = orchIdx + 1
                   /\ orchPc' = "loop"
    /\ UNCHANGED << managers, orchTask >>
    /\ OrchFrame

\* The manager at orchIdx is called and the backend never answers:
\* requests.post(url, headers=..., json=...) is given no timeout (lines
\* 47-51 and 139-143), so it waits for the response without limit and
\* neither returns nor raises.
CreateTaskCallHangs ==
    /\ orchPc = "loop"
    /\ orchIdx <= Len(managers)
    /\ orchPc' = "waiting"
    /\ UNCHANGED << managers, orchTask, orchIdx, results, callLog >>
    /\ OrchFrame

\* return results
CreateTaskReturn ==
    /\ orchPc = "loop"
    /\ orchIdx > Len(managers)
    /\ orchPc' = "done"
    /\ UNCHANGED << managers, orchTask, orchIdx, results, callLog >>
    /\ OrchFrame

\* the steps of a create_task call that is running
CreateTaskStep ==
    \/ \E resp \in HttpResponses : CreateTaskCall(resp)
    \/ CreateTaskCallHangs
    \/ CreateTaskReturn

\* the caller has taken the returned list
CreateTaskDone ==
    /\ orchPc = "done"
    /\ orchPc' = "idle"
    /\ orchTask' = NoTask
    /\ orchIdx' = 0
    /\ results' = << >>
    /\ callLog' = << >>
    /\ UNCHANGED managers
    /\ OrchFrame

OrchNext ==
    \/ OrchInit
    \/ \E b \in BackendClasses : RegisterBackend(b)
    \/ \E task \in Tasks : CreateTaskBegin(task)
    \/ \E resp \in HttpResponses : CreateTaskCall(resp)
    \/ CreateTaskCallHangs
    \/ CreateTaskReturn
    \/ CreateTaskDone

----------------------------------------------------------------------------
(* Python str operations, on sequences of characters                       *)

UpperChars == <<"A","B","C","D","E","F","G","H","I","J","K","L","M","N","O","P","Q","R","S","T","U","V","W","X","Y","Z">>
LowerChars == <<"a","b","c","d","e","f","g","h","i","j","k","l","m","n","o","p","q","r","s","t","u","v","w","x","y","z">>
DigitChars == <<"0","1","2","3","4","5","6","7","8","9">>

IsUpper(c) == \E i \in 1..Len(UpperChars) : UpperChars[i] = c
IsLowerLetter(c) == \E i \in 1..Len(LowerChars) : LowerChars[i] = c
IsDigit(c) == \E i \in 1..Len(DigitChars) : DigitChars[i] = c

\* the value of a decimal digit
DigitValue(c) == (CHOOSE i \in 1..Len(DigitChars) : DigitChars[i] = c) - 1

LowerChar(c) ==
    IF IsUpper(c)
    THEN LowerChars[CHOOSE i \in 1..Len(UpperChars) : UpperChars[i] = c]
    ELSE c

\* str.lower()
Lower(t) == SubSeq([i \in 1..Len(t) |-> LowerChar(t[i])], 1, Len(t))

\* t[i:i+len(k)] == k  (i counts from 1)
MatchAt(t, k, i) ==
    /\ i >= 1
    /\ i + Len(k) - 1 <= Len(t)
    /\ \A j \in 1..Len(k) : t[i + j - 1] = k[j]

\* k in t
Contains(t, k) == \E i \in 1..(Len(t) - Len(k) + 1) : MatchAt(t, k, i)

\* any(k in t for k in ks)
ContainsAny(t, ks) == \E n \in 1..Len(ks) : Contains(t, ks[n])

\* sum(1 for k in ks if k in t)
CountContained(t, ks) == Cardinality({ n \in 1..Len(ks) : Contains(t, ks[n]) })

IsSpace(c) == c \in {" ", "\t", "\n"}

\* str.strip()
Strip(t) ==
    LET keep == { i \in 1..Len(t) : ~IsSpace(t[i]) }
    IN  IF keep = {} THEN << >>
        ELSE LET lo == CHOOSE i \in keep : \A j \in keep : i <= j
                 hi == CHOOSE i \in keep : \A j \in keep : j <= i
             IN  SubSeq(t, lo, hi)

\* t.endswith(k)
EndsWith(t, k) == Len(t) >= Len(k) /\ MatchAt(t, k, Len(t) - Len(k) + 1)

\* t[:n]
Prefix(t, n) == SubSeq(t, 1, IF Len(t) < n THEN Len(t) ELSE n)

\* t.split(c)[0]
BeforeFirst(t, c) ==
    LET at == { i \in 1..Len(t) : t[i] = c }
    IN  IF at = {} THEN t
        ELSE SubSeq(t, 1, (CHOOSE i \in at : \A j \in at : i <= j) - 1)

\* t.rsplit(c, 1)[0]
BeforeLast(t, c) ==
    LET at == { i \in 1..Len(t) : t[i] = c }
    IN  IF at = {} THEN t
        ELSE SubSeq(t, 1, (CHOOSE i \in at : \A j \in at : j <= i) - 1)

\* \w of the re module, on the characters the texts use
IsWordChar(c) == IsUpper(c) \/ IsLowerLetter(c) \/ IsDigit(c) \/ c = "_"

\* \b at the gap before position i (between t[i-1] and t[i])
BoundaryBefore(t, i) ==
    LET left == i > 1 /\ i - 1 <= Len(t) /\ IsWordChar(t[i - 1])
        right == i >= 1 /\ i <= Len(t) /\ IsWordChar(t[i])
    IN  left # right

\* re.search(r'\b<k>\b', t) for a literal k
SearchWord(t, k) ==
    \E i \in 1..(Len(t) - Len(k) + 1) :
        /\ MatchAt(t, k, i)
        /\ BoundaryBefore(t, i)
        /\ BoundaryBefore(t, i + Len(k))

\* The end of the run of digits that starts at i (i - 1 if t[i] is no digit).
DigitRunEnd(t, i) ==
    LET stops == { j \in i..(Len(t) + 1) : j > Len(t) \/ ~IsDigit(t[j]) }
    IN  (CHOOSE j \in stops : \A m \in stops : j <= m) - 1

RECURSIVE IntOfFrom(_, _, _)
IntOfFrom(t, i, acc) ==
    IF i > Len(t) THEN acc ELSE IntOfFrom(t, i + 1, 10 * acc + DigitValue(t[i]))

\* int(t) for a string of decimal digits
IntOf(t) == IntOfFrom(t, 1, 0)

----------------------------------------------------------------------------
(* datetime: dates as proleptic Gregorian ordinals                         *)

\* date.max.toordinal(): 9999-12-31.  A datetime + timedelta beyond it
\* raises OverflowError.
MaxOrdinal == 3652059

IsLeap(y) == y % 4 = 0 /\ (y % 100 # 0 \/ y % 400 = 0)

DaysInMonth(y, m) ==
    IF m = 2 THEN (IF IsLeap(y) THEN 29 ELSE 28)
    ELSE IF m \in {4, 6, 9, 11} THEN 30 ELSE 31

RECURSIVE DaysBeforeMonth(_, _)
DaysBeforeMonth(y, m) ==
    IF m <= 1 THEN 0 ELSE DaysBeforeMonth(y, m - 1) + DaysInMonth(y, m - 1)

DaysBeforeYear(y) ==
    (y - 1) * 365 + (y - 1) \div 4 - (y - 1) \div 100 + (y - 1) \div 400

\* datetime(y, m, d) is a date (no ValueError)
ValidYmd(y, m, d) == m \in 1..12 /\ d >= 1 /\ d <= DaysInMonth(y, m)

\* date(y, m, d).toordinal()
Ymd2Ord(y, m, d) == DaysBeforeYear(y) + DaysBeforeMonth(y, m) + d

\* date.fromordinal(n), as the (year, month, day) that strftime('%Y-%m-%d')
\* prints
Ord2Ymd(n) ==
    LET y == CHOOSE yy \in (n \div 366 + 1)..(n \div 365 + 1) :
                 DaysBeforeYear(yy) < n /\ n <= DaysBeforeYear(yy + 1)
        doy == n - DaysBeforeYear(y)
        m == CHOOSE mm \in 1..12 :
                 /\ DaysBeforeMonth(y, mm) < doy
                 /\ doy <= DaysBeforeMonth(y, mm) + DaysInMonth(y, mm)
    IN  [y |-> y, m |-> m, d |-> doy - DaysBeforeMonth(y, m)]

\* None, where a date string is expected
NoDate == [y |-> 0, m |-> 0, d |-> 0]

\* datetime.now(): a calendar day and the hour of the day (hour 0 stands for
\* midnight exactly)
NowOrd(now) == Ymd2Ord(now.y, now.m, now.d)

\* today.weekday(): Monday is 0
Weekday(now) == (NowOrd(now) + 6) % 7

\* (today + timedelta(days=n)).strftime('%Y-%m-%d'), or OverflowError
PlusDays(now, n) ==
    IF n > MaxOrdinal - NowOrd(now)
    THEN Raised("OverflowError", "date value out of range")
    ELSE Returned(Ord2Ymd(NowOrd(now) + n))

\* (today + timedelta(hours=n)).strftime('%Y-%m-%d'), or OverflowError
PlusHours(now, n) == PlusDays(now, (now.hour + n) \div 24)

\* (today + timedelta(weeks=n)).strftime('%Y-%m-%d'), or OverflowError
PlusWeeks(now, n) ==
    IF n > MaxOrdinal
    THEN Raised("OverflowError", "date value out of range")
    ELSE PlusDays(now, 7 * n)

----------------------------------------------------------------------------
(* simple_analyzer.py                                                      *)

\* self.task_keywords
SimpleTaskKeywords ==
    << <<"t","o","d","o">>, <<"t","a","s","k">>, <<"r","e","m","i","n","d">>, <<"r","e","m","e","m","b","e","r">>, <<"n","e","e","d"," ","t","o">>, <<"s","h","o","u","l","d">>, <<"m","u","s","t">>,
       <<"h","a","v","e"," ","t","o">>, <<"d","o","n","'","t"," ","f","o","r","g","e","t">>, <<"p","l","e","a","s","e">>, <<"c","o","u","l","d"," ","y","o","u">>, <<"c","a","n"," ","y","o","u">>,
       <<"w","i","l","l"," ","y","o","u">>, <<"d","e","a","d","l","i","n","e">>, <<"b","y">>, <<"d","u","e">>, <<"a","s","a","p">>, <<"u","r","g","e","n","t">>, <<"i","m","p","o","r","t","a","n","t">>,
       <<"s","c","h","e","d","u","l","e">>, <<"m","e","e","t","i","n","g">>, <<"c","a","l","l">>, <<"e","m","a","i","l">>, <<"s","e","n","d">>, <<"r","e","v","i","e","w">>, <<"c","h","e","c","k">>,
       <<"p","r","e","p","a","r","e">>, <<"f","i","n","i","s","h">>, <<"c","o","m","p","l","e","t","e">>, <<"f","i","x">>, <<"u","p","d","a","t","e">>, <<"c","r","e","a","t","e">> >>

\* self.high_priority_words, self.low_priority_words
HighPriorityWords == << <<"u","r","g","e","n","t">>, <<"a","s","a","p">>, <<"c","r","i","t","i","c","a","l">>, <<"i","m","p","o","r","t","a","n","t">>, <<"i","m","m","e","d","i","a","t","e","l","y">> >>
LowPriorityWords == << <<"w","h","e","n","e","v","e","r">>, <<"e","v","e","n","t","u","a","l","l","y">>, <<"i","f"," ","p","o","s","s","i","b","l","e">>, <<"w","h","e","n"," ","y","o","u"," ","c","a","n">> >>

StrongIndicators ==
    << <<"r","e","m","i","n","d"," ","m","e">>, <<"d","o","n","'","t"," ","f","o","r","g","e","t">>, <<"n","e","e","d"," ","t","o">>, <<"h","a","v","e"," ","t","o">>, <<"p","l","e","a","s","e">> >>

PoliteRequests == << <<"c","o","u","l","d"," ","y","o","u">>, <<"c","a","n"," ","y","o","u">>, <<"w","i","l","l"," ","y","o","u">> >>

\* task_score
TaskScore(message) == CountContained(Lower(message), SimpleTaskKeywords)

ScoreThreshold == 2

SimpleIsTaskStrongLast(message) ==
    LET lower == Lower(message)
        byScore == TaskScore(message) >= ScoreThreshold
        strong == ContainsAny(lower, StrongIndicators)
        question == /\ EndsWith(Strip(message), <<"?">>)
                    /\ ~ContainsAny(lower, PoliteRequests)
    IN  (byScore /\ ~question) \/ strong

\* is_task, lines 36-45
SimpleIsTask(message) ==
    LET lower == Lower(message)
        byScore == TaskScore(message) >= ScoreThreshold
        strong == ContainsAny(lower, StrongIndicators)
        question == /\ EndsWith(Strip(message), <<"?">>)
                    /\ ~ContainsAny(lower, PoliteRequests)
    IN  (byScore \/ strong) /\ ~question

ConfidenceBase == 30
ConfidencePerKeyword == 15
ConfidenceCap == 90

Min(a, b) == IF a < b THEN a ELSE b
Max(a, b) == IF a > b THEN a ELSE b

SimpleConfidenceUncapped(message) ==
    ConfidenceBase + TaskScore(message) * ConfidencePerKeyword

\* confidence = min(0.9, 0.3 + (task_score * 0.15)), in hundredths
SimpleConfidence(message) ==
    Min(ConfidenceCap, ConfidenceBase + TaskScore(message) * ConfidencePerKeyword)

TitleLimit == 50

\* title, lines 80-82 and 98
SimpleTitle(message) ==
    LET first == Prefix(BeforeFirst(message, "."), TitleLimit)
        cut == IF Len(first) = TitleLimit
               THEN BeforeLast(first, " ") \o <<".",".",".">>
               ELSE first
    IN  Strip(cut)

\* priority, lines 85-89
SimplePriority(message) ==
    LET lower == Lower(message)
    IN  IF ContainsAny(lower, HighPriorityWords) THEN "high"
        ELSE IF ContainsAny(lower, LowPriorityWords) THEN "low"
        ELSE "medium"

\* patterns of _extract_due_date, in list order; days = -1 stands for None
DuePatterns ==
    << [pat |-> <<"t","o","d","a","y">>, days |-> 0],
       [pat |-> <<"t","o","m","o","r","r","o","w">>, days |-> 1],
       [pat |-> <<"n","e","x","t"," ","w","e","e","k">>, days |-> 7],
       [pat |-> <<"n","e","x","t"," ","m","o","n","t","h">>, days |-> 30],
       [pat |-> <<"m","o","n","d","a","y">>, days |-> -1],
       [pat |-> <<"t","u","e","s","d","a","y">>, days |-> -1],
       [pat |-> <<"w","e","d","n","e","s","d","a","y">>, days |-> -1],
       [pat |-> <<"t","h","u","r","s","d","a","y">>, days |-> -1],
       [pat |-> <<"f","r","i","d","a","y">>, days |-> -1],
       [pat |-> <<"e","n","d"," ","o","f"," ","d","a","y">>, days |-> 0],
       [pat |-> <<"e","o","d">>, days |-> 0],
       [pat |-> <<"e","n","d"," ","o","f"," ","w","e","e","k">>, days |-> -1],
       [pat |-> <<"e","o","w">>, days |-> -1] >>

\* the weekday the if/elif chain of lines 134-147 picks for a pattern
PatternWeekday(pat) ==
    IF Contains(pat, <<"m","o","n","d","a","y">>) THEN 0
    ELSE IF Contains(pat, <<"t","u","e","s","d","a","y">>) THEN 1
    ELSE IF Contains(pat, <<"w","e","d","n","e","s","d","a","y">>) THEN 2
    ELSE IF Contains(pat, <<"t","h","u","r","s","d","a","y">>) THEN 3
    ELSE IF Contains(pat, <<"f","r","i","d","a","y">>) THEN 4
    ELSE IF Contains(pat, <<"e","n","d"," ","o","f"," ","w","e","e","k">>) \/ Contains(pat, <<"e","o","w">>) THEN 4
    ELSE -1

DaysAheadSameDay(pat, now) == (PatternWeekday(pat) - Weekday(now)) % 7

\* days_ahead, lines 135-150
DaysAhead(pat, now) ==
    LET ahead == (PatternWeekday(pat) - Weekday(now)) % 7
    IN  IF ahead = 0 THEN 7 ELSE ahead

\* the first pattern of the list found in the text (0: none)
FirstDuePattern(lower) ==
    LET found == { n \in 1..Len(DuePatterns) : SearchWord(lower, DuePatterns[n].pat) }
    IN  IF found = {} THEN 0 ELSE CHOOSE n \in found : \A k \in found : n <= k

InUnits == << <<"h","o","u","r">>, <<"d","a","y">>, <<"w","e","e","k">> >>

\* re.search(r'in (\d+) (<unit>s?|...)', t) matches at i, for the units
\* listed
InPatternAt(t, i, units) ==
    /\ MatchAt(t, <<"i","n"," ">>, i)
    /\ DigitRunEnd(t, i + 3) >= i + 3
    /\ LET e == DigitRunEnd(t, i + 3)
       IN  /\ e + 1 <= Len(t) /\ t[e + 1] = " "
           /\ \E u \in 1..Len(units) : MatchAt(t, units[u], e + 2)

\* the leftmost match: [amount, unit], unit "" when there is none
InPattern(t, units) ==
    LET at == { i \in 1..Len(t) : InPatternAt(t, i, units) }
    IN  IF at = {} THEN [amount |-> 0, unit |-> ""]
        ELSE LET i == CHOOSE a \in at : \A b \in at : a <= b
                 e == DigitRunEnd(t, i + 3)
             IN  [ amount |-> IntOf(SubSeq(t, i + 3, e)),
                   unit |-> IF MatchAt(t, <<"h","o","u","r">>, e + 2) THEN "hour"
                            ELSE IF MatchAt(t, <<"d","a","y">>, e + 2) THEN "day"
                            ELSE IF MatchAt(t, <<"w","e","e","k">>, e + 2) THEN "week"
                            ELSE "month" ]

IsDateSep(c) == c = "/" \/ c = "-"

\* re.search(r'(\d{1,2})[/-](\d{1,2})', t) matches at i with a first group
\* of g digits
MonthDayAt(t, i, g) ==
    /\ i + g + 1 <= Len(t)
    /\ \A j \in i..(i + g - 1) : IsDigit(t[j])
    /\ IsDateSep(t[i + g])
    /\ IsDigit(t[i + g + 1])

\* the leftmost match: [found, month, day]
MonthDay(t) ==
    LET at == { i \in 1..Len(t) : MonthDayAt(t, i, 2) \/ MonthDayAt(t, i, 1) }
    IN  IF at = {} THEN [found |-> FALSE, month |-> 0, day |-> 0]
        ELSE LET i == CHOOSE a \in at : \A b \in at : a <= b
                 g == IF MonthDayAt(t, i, 2) THEN 2 ELSE 1
                 s == i + g + 1
                 h == IF s + 1 <= Len(t) /\ IsDigit(t[s + 1]) THEN 2 ELSE 1
             IN  [ found |-> TRUE,
                   month |-> IntOf(SubSeq(t, i, i + g - 1)),
                   day |-> IntOf(SubSeq(t, s, s + h - 1)) ]

\* lines 171-186: the MM/DD rule.  datetime(year, month, day) < today
\* compares midnight of that day with the current time.
MonthDayDue(message, now) ==
    LET md == MonthDay(message)
    IN  IF ~md.found \/ ~ValidYmd(now.y, md.month, md.day) THEN NoDate
        ELSE LET due == Ymd2Ord(now.y, md.month, md.day)
                 past == due < NowOrd(now) \/ (due = NowOrd(now) /\ now.hour > 0)
             IN  IF ~past THEN [y |-> now.y, m |-> md.month, d |-> md.day]
                 ELSE IF ValidYmd(now.y + 1, md.month, md.day)
                      THEN [y |-> now.y + 1, m |-> md.month, d |-> md.day]
                      ELSE NoDate

\* the days a matched entry n of the pattern list adds to today
PatternDays(n, now) ==
    IF DuePatterns[n].days # -1
    THEN DuePatterns[n].days
    ELSE DaysAhead(DuePatterns[n].pat, now)

\* lines 156-168, for the match `in` of the 'in N units' pattern
InPatternDue(in, now) ==
    IF in.unit = "hour" THEN PlusHours(now, in.amount)
    ELSE IF in.unit = "day" THEN PlusDays(now, in.amount)
    ELSE PlusWeeks(now, in.amount)

\* the rule that applies, given the first list pattern n found (0: none)
\* and the match `in` of the 'in N units' pattern (unit "": none)
DueByRule(message, now, n, in) ==
    IF n # 0 THEN PlusDays(now, PatternDays(n, now))
    ELSE IF in.unit # "" THEN InPatternDue(in, now)
    ELSE Returned(MonthDayDue(message, now))

\* SimpleMessageAnalyzer._extract_due_date: Returned(date or NoDate), or the
\* OverflowError of the timedelta addition
SimpleExtractDueDate(message, now) ==
    DueByRule(message, now, FirstDuePattern(Lower(message)), InPattern(Lower(message), InUnits))

\* tag_patterns, in dict order
SimpleTagPatterns ==
    << [tag |-> "meeting", keywords |-> << <<"m","e","e","t","i","n","g">>, <<"c","a","l","l">>, <<"s","y","n","c">>, <<"s","t","a","n","d","u","p">>, <<"d","i","s","c","u","s","s","i","o","n">> >>],
       [tag |-> "email", keywords |-> << <<"e","m","a","i","l">>, <<"m","a","i","l">>, <<"s","e","n","d">>, <<"r","e","p","l","y">>, <<"r","e","s","p","o","n","d">> >>],
       [tag |-> "review", keywords |-> << <<"r","e","v","i","e","w">>, <<"c","h","e","c","k">>, <<"a","p","p","r","o","v","e">>, <<"f","e","e","d","b","a","c","k">> >>],
       [tag |-> "development", keywords |-> << <<"c","o","d","e">>, <<"i","m","p","l","e","m","e","n","t">>, <<"f","i","x">>, <<"b","u","g">>, <<"f","e","a","t","u","r","e">>, <<"d","e","p","l","o","y">> >>],
       [tag |-> "documentation", keywords |-> << <<"d","o","c","u","m","e","n","t">>, <<"d","o","c","s">>, <<"w","r","i","t","e">>, <<"u","p","d","a","t","e"," ","d","o","c","s">> >>],
       [tag |-> "planning", keywords |-> << <<"p","l","a","n">>, <<"s","c","h","e","d","u","l","e">>, <<"o","r","g","a","n","i","z","e">>, <<"p","r","e","p","a","r","e">> >>],
       [tag |-> "research", keywords |-> << <<"r","e","s","e","a","r","c","h">>, <<"i","n","v","e","s","t","i","g","a","t","e">>, <<"a","n","a","l","y","z","e">>, <<"f","i","n","d"," ","o","u","t">> >>] >>

UrgentTagWords == << <<"u","r","g","e","n","t">>, <<"a","s","a","p">>, <<"c","r","i","t","i","c","a","l">> >>

\* set(tags), lines 204-212
SimpleTagSet(message) ==
    LET lower == Lower(message)
    IN  { SimpleTagPatterns[n].tag :
            n \in { k \in 1..Len(SimpleTagPatterns) :
                      ContainsAny(lower, SimpleTagPatterns[k].keywords) } }
        \cup (IF ContainsAny(lower, UrgentTagWords) THEN {"urgent"} ELSE {})

MaxTags == 5

\* list(set(tags))[:5]: the set's iteration order is the interpreter's, so
\* any MaxTags distinct members in any order can come out
SimpleTagLists(message) ==
    LET s == SimpleTagSet(message)
        k == Min(MaxTags, Cardinality(s))
    IN  { f \in [1..k -> s] : \A i, j \in 1..k : i # j => f[i] # f[j] }

\* task_details is None
NoDetails ==
    [ present |-> FALSE, title |-> << >>, description |-> << >>,
      priority |-> "", due_date |-> NoDate, tags |-> << >> ]

\* SimpleMessageAnalyzer._extract_task_details, with the order `tags` that
\* list(set(...)) produced
DetailsWithDue(message, due, tags) ==
    IF due.raised THEN due
    ELSE Returned([ present |-> TRUE,
                    title |-> SimpleTitle(message),
                    description |-> message,
                    priority |-> SimplePriority(message),
                    due_date |-> due.value,
                    tags |-> tags ])

SimpleExtractTaskDetails(message, now, tags) ==
    DetailsWithDue(message, SimpleExtractDueDate(message, now), tags)

\* the dict of lines 54-63, unless _extract_task_details raised
TaskResult(confidence, details) ==
    IF details.raised THEN details
    ELSE Returned([ is_task |-> TRUE,
                    confidence |-> confidence,
                    task_details |-> details.value,
                    model |-> "simple-rules",
                    error |-> NoValue ])

\* SimpleMessageAnalyzer.analyze_message: Returned(result dict), or the
\* exception that leaves it
SimpleAnalyze(message, now, tags) ==
    IF SimpleIsTask(message)
    THEN TaskResult(SimpleConfidence(message),
                    SimpleExtractTaskDetails(message, now, tags))
    ELSE Returned([ is_task |-> FALSE,
                    confidence |-> 100 - SimpleConfidence(message),
                    task_details |-> NoDetails,
                    model |-> "simple-rules",
                    error |-> NoValue ])

----------------------------------------------------------------------------
(* mention_tracker.py                                                      *)

\* Keep only last 100 mentions per user (line 159)
MentionCap == 100

\* characters of [A-Z0-9]
IsIdChar(c) == IsUpper(c) \/ IsDigit(c)

\* The end of the run of [A-Z0-9] that starts at i (i - 1 if there is none).
IdRunEnd(t, i) ==
    LET stops == { j \in i..(Len(t) + 1) : j > Len(t) \/ ~IsIdChar(t[j]) }
    IN  (CHOOSE j \in stops : \A m \in stops : j <= m) - 1

\* r'<@([A-Z0-9]+)>' matches at i: the index of its closing '>' (0: no match)
MentionEndAt(t, i) ==
    IF /\ MatchAt(t, <<"<","@">>, i)
       /\ IdRunEnd(t, i + 2) >= i + 2
       /\ IdRunEnd(t, i + 2) + 1 <= Len(t)
       /\ t[IdRunEnd(t, i + 2) + 1] = ">"
    THEN IdRunEnd(t, i + 2) + 1
    ELSE 0

RECURSIVE FindMentionsFrom(_, _)
FindMentionsFrom(t, i) ==
    IF i > Len(t) THEN << >>
    ELSE IF MentionEndAt(t, i) # 0
         THEN << SubSeq(t, i + 2, MentionEndAt(t, i) - 1) >>
              \o FindMentionsFrom(t, MentionEndAt(t, i) + 1)
         ELSE FindMentionsFrom(t, i + 1)

\* re.findall(r'<@([A-Z0-9]+)>', text)
FindMentions(t) == FindMentionsFrom(t, 1)

RECURSIVE RemoveMentionsFrom(_, _)
RemoveMentionsFrom(t, i) ==
    IF i > Len(t) THEN << >>
    ELSE IF MentionEndAt(t, i) # 0
         THEN RemoveMentionsFrom(t, MentionEndAt(t, i) + 1)
         ELSE << t[i] >> \o RemoveMentionsFrom(t, i + 1)

\* re.sub(r'<@[A-Z0-9]+>', '', text)
RemoveMentions(t) == RemoveMentionsFrom(t, 1)

RECURSIVE ReplaceFrom(_, _, _, _)
ReplaceFrom(t, old, new, i) ==
    IF i > Len(t) THEN << >>
    ELSE IF MatchAt(t, old, i)
         THEN new \o ReplaceFrom(t, old, new, i + Len(old))
         ELSE << t[i] >> \o ReplaceFrom(t, old, new, i + 1)

\* t.replace(old, new), old not empty
Replace(t, old, new) == ReplaceFrom(t, old, new, 1)

\* the user id the module tracks from the start (line 36)
AutoTrackedUser == <<"U","0","4","N","Y","Q","N","6","N","E","M">>
OtherUser == <<"U","2">>
Users == { AutoTrackedUser, OtherUser }

\* user_mentions[user] = user_mentions[user][-100:] when longer than 100
TakeLast(h, n) == SubSeq(h, Len(h) - n + 1, Len(h))

TrimOnlyWhenFarOver(h) ==
    IF Len(h) > MentionCap + 1 THEN TakeLast(h, MentionCap) ELSE h

\* lines 159-160
TrimHistory(h) == IF Len(h) > MentionCap THEN TakeLast(h, MentionCap) ELSE h

\* clean_text = text.replace(f'<@{mentioned_user}>', '@you')
CleanText(text, user) == Replace(text, <<"<","@">> \o user \o <<">">>, <<"@","y","o","u">>)

\* mention_data, lines 112-154.  env says which client lookups succeeded.
MentionData(ev, env, user, analysis) ==
    [ timestamp |-> ev.ts,
      channel |-> ev.channel,
      channel_name |-> IF env.channel_ok THEN "general" ELSE ev.channel,
      sender |-> ev.user,
      sender_name |-> IF env.sender_ok THEN "Sam Sender" ELSE ev.user,
      text |-> ev.text,
      clean_text |-> CleanText(ev.text, user),
      is_task |-> analysis.is_task,
      confidence |-> analysis.confidence,
      task_details |-> analysis.task_details,
      permalink |-> IF env.permalink_ok THEN "https://slack/permalink" ELSE "None" ]

\* The for loop of handle_message from the j-th mention on, over the
\* histories hist: the histories when the loop ends, and whether the
\* analyzer's exception ended it.  tagOrder[j] is the order in which
\* list(set(tags)) came out for the j-th mention.
RECURSIVE MentionLoop(_, _, _, _, _, _, _)
RECURSIVE MentionStep(_, _, _, _, _, _, _, _)
MentionLoop(hist, ms, j, ev, env, now, tagOrder) ==
    IF j > Len(ms) THEN [hist |-> hist, raised |-> FALSE]
    ELSE IF ms[j] \notin tracked_users
         THEN MentionLoop(hist, ms, j + 1, ev, env, now, tagOrder)
         ELSE MentionStep(hist, ms, j, ev, env, now, tagOrder,
                          SimpleAnalyze(CleanText(ev.text, ms[j]), now, tagOrder[j]))

\* lines 129-160 for the j-th mention, given what the analyzer did, and on
\* to the next mention
MentionStep(hist, ms, j, ev, env, now, tagOrder, a) ==
    IF a.raised THEN [hist |-> hist, raised |-> TRUE]
    ELSE MentionLoop(
           [hist EXCEPT ![ms[j]] =
              TrimHistory(Append(@, MentionData(ev, env, ms[j], a.value)))],
           ms, j + 1, ev, env, now, tagOrder)

\* the orders list(set(tags)) can take, one per mention of the text
TagOrders(text) ==
    LET ms == FindMentions(text)
        all == UNION { SimpleTagLists(CleanText(text, ms[j])) : j \in 1..Len(ms) }
    IN  { f \in [1..Len(ms) -> all] :
            \A j \in 1..Len(ms) : f[j] \in SimpleTagLists(CleanText(text, ms[j])) }

\* the clock values datetime.now() takes in the model: a Monday morning and
\* a Friday night
Nows ==
    { [y |-> 2025, m |-> 6, d |-> 2, hour |-> 9],
      [y |-> 2025, m |-> 6, d |-> 6, hour |-> 23] }

\* The message every run may repeat: one mention of the tracked user.
StandardText == <<"<","@","U","0","4","N","Y","Q","N","6","N","E","M",">">>

\* Other message texts: another user mentioned before the tracked one, who
\* is mentioned twice; a request to the tracked user; no mention at all.
OtherTexts ==
    { <<"<","@","U","2",">"," ","<","@","U","0","4","N","Y","Q","N","6","N","E","M",">"," ","<","@","U","0","4","N","Y","Q","N","6","N","E","M",">">>,
      <<"<","@","U","0","4","N","Y","Q","N","6","N","E","M",">"," ","p","l","e","a","s","e"," ","f","i","x">>,
      <<"h","e","l","l","o">> }

\* The client lookups of one event (conversations_info, users_info,
\* chat_getPermalink) all succeed or all fail (lines 113-127, 141-148).
LookupsOk == [channel_ok |-> TRUE, sender_ok |-> TRUE, permalink_ok |-> TRUE]
LookupsFail == [channel_ok |-> FALSE, sender_ok |-> FALSE, permalink_ok |-> FALSE]

MessageEvent(text, bot, ts) ==
    [ text |-> text, bot_id |-> bot, channel |-> "C01", user |-> "U0SENDER", ts |-> ts ]

\* The timestamps the for loop of handle_message appends to each user's
\* history: one per mention of a tracked user, until the analyzer raises.
RECURSIVE AppendedBy(_, _, _, _, _, _)
AppendedBy(rec, ms, j, ts, text, now) ==
    IF j > Len(ms) THEN rec
    ELSE IF ms[j] \notin tracked_users
         THEN AppendedBy(rec, ms, j + 1, ts, text, now)
         ELSE IF /\ SimpleIsTask(CleanText(text, ms[j]))
                 /\ SimpleExtractDueDate(CleanText(text, ms[j]), now).raised
              THEN rec
              ELSE AppendedBy([rec EXCEPT ![ms[j]] = Append(@, ts)],
                              ms, j + 1, ts, text, now)

\* Slack's ts of the newest message event the histories recorded since they
\* were last emptied (0: none); the next event's ts is the one after it
NewestTs ==
    LET last(u) == IF recorded[u] = << >> THEN 0 ELSE recorded[u][Len(recorded[u])]
    IN  Max(last(AutoTrackedUser), last(OtherUser))

\* what a mention-tracker step leaves alone
MentionFrame ==
    UNCHANGED << config, orchVars, analyzeVars, botVars, workers, prefsVars >>

\* handle_message(event, client, logger)
HandleMessage(ev, env, now, tagOrder) ==
    /\ user_mentions' =
          IF ev.bot_id THEN user_mentions
          ELSE MentionLoop(user_mentions, FindMentions(ev.text), 1,
                           ev, env, now, tagOrder).hist
    /\ recorded' =
          IF ev.bot_id THEN recorded
          ELSE AppendedBy(recorded, FindMentions(ev.text), 1, ev.ts, ev.text, now)
    /\ UNCHANGED tracked_users

\* The standard mention is delivered, all lookups succeeding.
StandardMessage ==
    /\ NewestTs < MaxEvents
    /\ \E now \in Nows :
         \E tagOrder \in TagOrders(StandardText) :
            HandleMessage(MessageEvent(StandardText, FALSE, NewestTs + 1),
                          LookupsOk, now, tagOrder)
    /\ UNCHANGED otherCount
    /\ MentionFrame

\* Any other message event is delivered: another text, a bot's message, or
\* the standard mention while the client lookups fail.
OtherMessage ==
    /\ NewestTs < MaxEvents
    /\ otherCount < MaxOther
    /\ \E text \in OtherTexts \cup { StandardText }, bot \in BOOLEAN,
          env \in { LookupsOk, LookupsFail }, now \in Nows :
         /\ (env = LookupsFail) = (text = StandardText /\ ~bot)
         /\ \E tagOrder \in TagOrders(text) :
               HandleMessage(MessageEvent(text, bot, NewestTs + 1), env, now, tagOrder)
    /\ otherCount' = otherCount + 1
    /\ MentionFrame

TrackCommands == << <<"t","r","a","c","k"," ","m","e">>, <<"t","r","a","c","k"," ","m","y"," ","m","e","n","t","i","o","n","s">>, <<"s","t","a","r","t"," ","t","r","a","c","k","i","n","g">> >>
StopCommands == << <<"s","t","o","p"," ","t","r","a","c","k","i","n","g">>, <<"u","n","t","r","a","c","k"," ","m","e">> >>

IsOneOf(t, ks) == \E n \in 1..Len(ks) : ks[n] = t

\* handle_bot_mention(event, say, client, logger): the commands that change
\* the module's state; every other text only answers.
HandleBotMention(user, rawText) ==
    LET text == Lower(Strip(RemoveMentions(rawText)))
    IN  IF IsOneOf(text, TrackCommands)
        THEN /\ tracked_users' = tracked_users \cup { user }
             /\ UNCHANGED << user_mentions, recorded >>
        ELSE IF IsOneOf(text, StopCommands)
        THEN /\ tracked_users' = tracked_users \ { user }
             /\ user_mentions' = [user_mentions EXCEPT ![user] = << >>]
             /\ recorded' = [recorded EXCEPT ![user] = << >>]
        ELSE IF Prefix(text, 5) = <<"c","l","e","a","r">>
        THEN /\ user_mentions' = [user_mentions EXCEPT ![user] = << >>]
             /\ recorded' = [recorded EXCEPT ![user] = << >>]
             /\ UNCHANGED tracked_users
        ELSE UNCHANGED << tracked_users, user_mentions, recorded >>

CommandTexts ==
    { <<"<","@","B","0","T",">"," ","t","r","a","c","k"," ","m","e">>, <<"<","@","B","0","T",">"," ","S","t","o","p"," ","T","r","a","c","k","i","n","g">>, <<"<","@","B","0","T",">"," ","c","l","e","a","r"," ","m","e","n","t","i","o","n","s">>,
      <<"<","@","B","0","T",">"," ","m","y"," ","t","a","s","k","s">> }

\* An app_mention event is delivered.
BotMention ==
    /\ otherCount < MaxOther
    /\ \E user \in Users, text \in CommandTexts : HandleBotMention(user, text)
    /\ otherCount' = otherCount + 1
    /\ MentionFrame

MentionNext ==
    \/ StandardMessage
    \/ OtherMessage
    \/ BotMention

----------------------------------------------------------------------------
(* mention_tracker.py, the handlers step by step.  Bolt runs each listener *)
(* in a thread of its pool, so handlers of different events interleave     *)
(* between the statements below; no handler takes a lock.                  *)

Workers == 1..MaxWorkers

\* a listener thread that has taken no event
IdleWorker ==
    [ pc |-> "idle", handler |-> "none", user |-> << >>, ts |-> 0, j |-> 0,
      tmp |-> << >> ]

\* the record handle_message stores for the standard mention with this ts
StandardRecord(ts) ==
    MentionData(MessageEvent(StandardText, FALSE, ts), LookupsOk, AutoTrackedUser,
                SimpleAnalyze(CleanText(StandardText, AutoTrackedUser),
                              [y |-> 2025, m |-> 6, d |-> 2, hour |-> 9],
                              << >>).value)

\* the history after the standard mentions with ts 1..n were handled one
\* after another
StandardHistory(n) == [i \in 1..n |-> StandardRecord(i)]

\* what a step of a mention_tracker listener leaves alone
TrackerFrame ==
    UNCHANGED << config, orchVars, analyzeVars, botVars, prefsVars, otherCount >>

\* lines 90-104: a message event reaches handle_message in thread w; a
\* bot's message is skipped
HmBegin(w) ==
    /\ workers[w].pc = "idle"
    /\ \E bot \in BOOLEAN :
         workers' = [workers EXCEPT ![w] =
                       [ pc |-> IF bot THEN "done" ELSE "loop",
                         handler |-> "message", user |-> << >>,
                         ts |-> MentionCap + w, j |-> 1, tmp |-> << >> ]]
    /\ UNCHANGED << tracked_users, user_mentions, recorded >>
    /\ TrackerFrame

\* lines 106-154: the next mention; for a tracked user the client lookups
\* and the analysis follow
HmCheck(w) ==
    /\ workers[w].pc = "loop"
    /\ workers' = [workers EXCEPT ![w] =
          IF workers[w].j > Len(FindMentions(StandardText))
          THEN [@ EXCEPT !.pc = "done"]
          ELSE IF FindMentions(StandardText)[workers[w].j] \in tracked_users
          THEN [@ EXCEPT !.pc = "append",
                         !.user = FindMentions(StandardText)[workers[w].j]]
          ELSE [@ EXCEPT !.j = @ + 1]]
    /\ UNCHANGED << tracked_users, user_mentions, recorded >>
    /\ TrackerFrame

\* line 156: user_mentions[mentioned_user].append(mention_data)
HmAppend(w) ==
    /\ workers[w].pc = "append"
    /\ user_mentions' = [user_mentions EXCEPT ![workers[w].user] =
                            Append(@, StandardRecord(workers[w].ts))]
    /\ recorded' = [recorded EXCEPT ![workers[w].user] = Append(@, workers[w].ts)]
    /\ workers' = [workers EXCEPT ![w].pc = "len"]
    /\ UNCHANGED tracked_users
    /\ TrackerFrame

\* line 159: if len(user_mentions[mentioned_user]) > 100
HmLen(w) ==
    /\ workers[w].pc = "len"
    /\ workers' = [workers EXCEPT ![w] =
          IF Len(user_mentions[workers[w].user]) > MentionCap
          THEN [@ EXCEPT !.pc = "slice"]
          ELSE [@ EXCEPT !.pc = "loop", !.j = @ + 1]]
    /\ UNCHANGED << tracked_users, user_mentions, recorded >>
    /\ TrackerFrame

\* line 160, right-hand side: user_mentions[mentioned_user][-100:]
HmSlice(w) ==
    /\ workers[w].pc = "slice"
    /\ workers' = [workers EXCEPT ![w] =
          [@ EXCEPT !.pc = "store",
                    !.tmp = IF Len(user_mentions[workers[w].user]) > MentionCap
                            THEN TakeLast(user_mentions[workers[w].user], MentionCap)
                            ELSE user_mentions[workers[w].user]]]
    /\ UNCHANGED << tracked_users, user_mentions, recorded >>
    /\ TrackerFrame

\* line 160, the assignment user_mentions[mentioned_user] = ...
HmStore(w) ==
    /\ workers[w].pc = "store"
    /\ user_mentions' = [user_mentions EXCEPT ![workers[w].user] = workers[w].tmp]
    /\ workers' = [workers EXCEPT ![w] =
                     [@ EXCEPT !.pc = "loop", !.j = @ + 1, !.tmp = << >>]]
    /\ UNCHANGED << tracked_users, recorded >>
    /\ TrackerFrame

\* enable_mention_tracking(user_id, say, client) in thread w
TrackCmd(w, user) ==
    /\ workers[w].pc = "idle"
    /\ tracked_users' = tracked_users \cup { user }
    /\ workers' = [workers EXCEPT ![w] =
                     [IdleWorker EXCEPT !.pc = "done", !.handler = "track",
                                        !.user = user]]
    /\ UNCHANGED << user_mentions, recorded >>
    /\ TrackerFrame

\* disable_mention_tracking, line 86: tracked_users.discard(user_id)
StopDiscard(w, user) ==
    /\ workers[w].pc = "idle"
    /\ tracked_users' = tracked_users \ { user }
    /\ workers' = [workers EXCEPT ![w] =
                     [IdleWorker EXCEPT !.pc = "clear", !.handler = "stop",
                                        !.user = user]]
    /\ UNCHANGED << user_mentions, recorded >>
    /\ TrackerFrame

\* disable_mention_tracking, lines 87-88: user_mentions[user_id].clear(),
\* and the command is answered
StopClear(w) ==
    /\ workers[w].pc = "clear"
    /\ user_mentions' = [user_mentions EXCEPT ![workers[w].user] = << >>]
    /\ recorded' = [recorded EXCEPT ![workers[w].user] = << >>]
    /\ workers' = [workers EXCEPT ![w].pc = "done"]
    /\ UNCHANGED tracked_users
    /\ TrackerFrame

\* clear_mentions(user_id, say) in thread w
ClearCmd(w, user) ==
    /\ workers[w].pc = "idle"
    /\ user_mentions' = [user_mentions EXCEPT ![user] = << >>]
    /\ recorded' = [recorded EXCEPT ![user] = << >>]
    /\ workers' = [workers EXCEPT ![w] =
                     [IdleWorker EXCEPT !.pc = "done", !.handler = "clear",
                                        !.user = user]]
    /\ UNCHANGED tracked_users
    /\ TrackerFrame

TrackerNext ==
    \/ \E w \in Workers : HmBegin(w)
    \/ \E w \in Workers : HmCheck(w)
    \/ \E w \in Workers : HmAppend(w)
    \/ \E w \in Workers : HmLen(w)
    \/ \E w \in Workers : HmSlice(w)
    \/ \E w \in Workers : HmStore(w)
    \/ \E w \in Workers, user \in Users : TrackCmd(w, user)
    \/ \E w \in Workers, user \in Users : StopDiscard(w, user)
    \/ \E w \in Workers : StopClear(w)
    \/ \E w \in Workers, user \in Users : ClearCmd(w, user)

----------------------------------------------------------------------------
(* llama_analyzer.py                                                       *)

\* A parsed JSON object, or the dict _parse_natural_response builds: each
\* key carries what kind of value it has.  t is "absent" for a missing key,
\* "null" for None, "str" for a string that is no number, "empty" for {}.
NoJsonDetails(t) ==
    [ t |-> t, title |-> << >>, description |-> << >>, priority |-> NoValue,
      due_date |-> NoDate, tags |-> << >> ]

JsonNumber(n) == [t |-> "num", n |-> n]

\* task_keywords of _parse_natural_response, lines 123-124
LlamaFallbackKeywords == << <<"t","o","d","o">>, <<"t","a","s","k">>, <<"r","e","m","i","n","d">>, <<"d","e","a","d","l","i","n","e">>, <<"d","u","e">>, <<"p","l","e","a","s","e">>, <<"n","e","e","d">>, <<"s","h","o","u","l","d">>, <<"m","u","s","t">>, <<"w","i","l","l">>, <<"c","a","n"," ","y","o","u">>, <<"c","o","u","l","d"," ","y","o","u">> >>

\* line 130
TaskPhrases == << <<"i","s"," ","a"," ","t","a","s","k">>, <<"c","o","n","t","a","i","n","s"," ","a"," ","t","a","s","k">>, <<"a","c","t","i","o","n"," ","i","t","e","m">> >>

\* priority, lines 137-141
LlamaPriority(lower) ==
    IF ContainsAny(lower, << <<"u","r","g","e","n","t">>, <<"a","s","a","p">>, <<"c","r","i","t","i","c","a","l">>, <<"i","m","p","o","r","t","a","n","t">> >>) THEN "high"
    ELSE IF ContainsAny(lower, << <<"w","h","e","n","e","v","e","r">>, <<"e","v","e","n","t","u","a","l","l","y">>, <<"l","o","w"," ","p","r","i","o","r","i","t","y">> >>) THEN "low"
    ELSE "medium"

\* date_patterns, lines 145-151; days = -1 stands for None
LlamaDatePatterns ==
    << [pat |-> <<"t","o","m","o","r","r","o","w">>, days |-> 1],
       [pat |-> <<"n","e","x","t"," ","w","e","e","k">>, days |-> 7],
       [pat |-> <<"n","e","x","t"," ","m","o","n","t","h">>, days |-> 30],
       [pat |-> <<"b","y"," ","f","r","i","d","a","y">>, days |-> -1],
       [pat |-> <<"e","n","d"," ","o","f"," ","d","a","y">>, days |-> 0] >>

\* due_date, lines 144-156: the first pattern found that has a number of days
FallbackDue(lower, now) ==
    LET found == { n \in 1..Len(LlamaDatePatterns) :
                     /\ LlamaDatePatterns[n].days # -1
                     /\ Contains(lower, LlamaDatePatterns[n].pat) }
    IN  IF found = {} THEN Returned(NoDate)
        ELSE PlusDays(now, LlamaDatePatterns[CHOOSE n \in found : \A k \in found : n <= k].days)

\* tag_patterns of LlamaMessageAnalyzer._extract_tags, in dict order
LlamaTagPatterns ==
    << [tag |-> "meeting", keywords |-> << <<"m","e","e","t","i","n","g">>, <<"c","a","l","l">>, <<"s","y","n","c">>, <<"s","t","a","n","d","u","p">> >>],
       [tag |-> "email", keywords |-> << <<"e","m","a","i","l">>, <<"s","e","n","d">>, <<"r","e","p","l","y">> >>],
       [tag |-> "review", keywords |-> << <<"r","e","v","i","e","w">>, <<"c","h","e","c","k">>, <<"a","p","p","r","o","v","e">> >>],
       [tag |-> "development", keywords |-> << <<"c","o","d","e">>, <<"i","m","p","l","e","m","e","n","t">>, <<"f","i","x">>, <<"b","u","g">> >>],
       [tag |-> "documentation", keywords |-> << <<"d","o","c","u","m","e","n","t">>, <<"w","r","i","t","e">>, <<"u","p","d","a","t","e"," ","d","o","c","s">> >> ] >>

\* LlamaMessageAnalyzer._extract_tags: a list, in the order of the dict
LlamaExtractTags(message) ==
    LET hit(p) == ContainsAny(Lower(message), p.keywords)
        hits == SelectSeq(LlamaTagPatterns, hit)
    IN  Prefix([i \in 1..Len(hits) |-> hits[i].tag], MaxTags)

\* title, lines 160-162
LlamaTitle(message) ==
    Strip(Prefix(message, TitleLimit))
        \o (IF Len(message) > TitleLimit THEN <<".",".",".">> ELSE << >>)

\* lines 158-180: the dict returned, unless computing the due date raised
FallbackObject(isTask, message, due) ==
    IF due.raised THEN due
    ELSE IF isTask
    THEN Returned([ is_task |-> "true",
                    confidence |-> JsonNumber(70),
                    task_details |->
                        [ t |-> "dict",
                          title |-> LlamaTitle(message),
                          description |-> message,
                          priority |-> LlamaPriority(Lower(message)),
                          due_date |-> due.value,
                          tags |-> LlamaExtractTags(message) ] ])
    ELSE Returned([ is_task |-> "false",
                    confidence |-> JsonNumber(80),
                    task_details |-> NoJsonDetails("null") ])

\* LlamaMessageAnalyzer._parse_natural_response
ParseNaturalResponse(text, message, now) ==
    FallbackObject(\/ ContainsAny(Lower(text), TaskPhrases)
                   \/ ContainsAny(Lower(message), LlamaFallbackKeywords),
                   message, FallbackDue(Lower(message), now))

\* lines 223-233: the task_details dict _validate_result builds
ValidDetails(d) ==
    [ present |-> TRUE,
      title |-> d.title,
      description |-> d.description,
      priority |-> IF d.priority \in {"low", "medium", "high"} THEN d.priority
                   ELSE "medium",
      due_date |-> d.due_date,
      tags |-> d.tags ]

\* LlamaMessageAnalyzer._validate_result: float() raises on None and on a
\* string that is no number, details.get on a string
ValidateResult(obj) ==
    IF obj.confidence.t = "null"
    THEN Raised("TypeError", "float() argument must be a string or a number")
    ELSE IF obj.confidence.t = "str"
    THEN Raised("ValueError", "could not convert string to float")
    ELSE IF obj.is_task = "true" /\ obj.task_details.t = "str"
    THEN Raised("AttributeError", "'str' object has no attribute 'get'")
    ELSE Returned([ is_task |-> obj.is_task = "true",
                    confidence |-> Max(0, Min(100, obj.confidence.n)),
                    task_details |->
                        IF obj.is_task = "true" /\ obj.task_details.t = "dict"
                        THEN ValidDetails(obj.task_details)
                        ELSE NoDetails,
                    model |-> "llama-local",
                    error |-> NoValue ])

\* The JSON objects the model may answer with.
LlamaObjects ==
    [ is_task : {"absent", "true", "false"},
      confidence : { [t |-> "absent", n |-> 0], [t |-> "null", n |-> 0],
                     [t |-> "str", n |-> 0] }
                   \cup { JsonNumber(n) : n \in {-50, 0, 90, 150} },
      task_details :
          { NoJsonDetails(t) : t \in {"absent", "null", "str", "empty"} }
          \cup { [ t |-> "dict", title |-> <<"S","h","i","p"," ","i","t">>, description |-> <<"S","h","i","p"," ","t","h","e"," ","r","e","l","e","a","s","e">>,
                   priority |-> p, due_date |-> NoDate, tags |-> << "ops" >> ] :
                 p \in {NoValue, "low", "high", "urgent", "bogus"} }
          \cup { [ t |-> "dict", title |-> <<"S","h","i","p"," ","i","t">>, description |-> <<"S","h","i","p"," ","t","h","e"," ","r","e","l","e","a","s","e">>,
                   priority |-> "high", due_date |-> NoDate, tags |-> tg ] :
                 tg \in { << "ops", "ops" >>,
                          << "a", "b", "c", "d", "e", "f" >> } } ]

\* What self.llm(prompt, ...) does: it raises, or it returns a text.  json
\* says what json.loads makes of the text's {...} span: the object obj, or
\* JSONDecodeError; the characters inside a span that parses are left out.
LlamaOutputs ==
    { [kind |-> "raise", text |-> << >>, json |-> "invalid", obj |-> NoValue] }
    \cup [ kind : {"text"},
           text : { << >>, <<"T","h","i","s"," ","i","s"," ","a"," ","t","a","s","k",".">>, <<"N","o","t"," ","s","u","r","e">>, <<"{","o","o","p","s","}">>, <<"c","o","n","t","a","i","n","s"," ","a"," ","t","a","s","k"," ","{","i","s","_","t","a","s","k",":"," ","t","r","u">>, <<"}"," ","{">> },
           json : {"invalid"}, obj : {NoValue} ]
    \cup [ kind : {"text"}, text : { <<"{",".",".",".","}">> }, json : {"object"}, obj : LlamaObjects ]

\* re.search(r'\{.*\}', text, re.DOTALL) finds a span
HasSpan(text) ==
    \E i \in 1..Len(text) : \E j \in (i + 1)..Len(text) : text[i] = "{" /\ text[j] = "}"

LlamaParseGivingUp(out, message, now) ==
    IF HasSpan(out.text) /\ out.json = "object" THEN Returned(out.obj)
    ELSE Returned([ is_task |-> "false", confidence |-> JsonNumber(0),
                    task_details |-> NoJsonDetails("null") ])

\* lines 91-101: the parsed object, or the keyword fallback when there is no
\* span or json.loads raised JSONDecodeError
LlamaParse(out, message, now) ==
    IF HasSpan(out.text) /\ out.json = "object" THEN Returned(out.obj)
    ELSE ParseNaturalResponse(out.text, message, now)

\* line 104, when lines 91-101 raised nothing
ValidateParsed(parsed) == IF parsed.raised THEN parsed ELSE ValidateResult(parsed.value)

\* lines 109-117
LlamaDefault(msg) ==
    [ is_task |-> FALSE, confidence |-> 0, task_details |-> NoDetails,
      model |-> "llama-local", error |-> msg ]

LlamaCaughtOnlyLlmErrors(r) ==
    IF r.raised /\ r.exc = "RuntimeError" THEN Returned(LlamaDefault(r.value)) ELSE r

\* except Exception as e, lines 106-117
LlamaCaught(r) == IF r.raised THEN Returned(LlamaDefault(r.value)) ELSE r

\* LlamaMessageAnalyzer.analyze_message
LlamaAnalyze(out, message, now) ==
    LlamaCaught(IF out.kind = "raise"
                THEN Raised("RuntimeError", "llama_cpp failed")
                ELSE ValidateParsed(LlamaParse(out, message, now)))

----------------------------------------------------------------------------
(* message_analyzer.py                                                     *)

\* self.task_keywords, lines 38-42
MATaskKeywords == << <<"t","o","d","o">>, <<"t","a","s","k">>, <<"r","e","m","i","n","d">>, <<"r","e","m","e","m","b","e","r">>, <<"n","e","e","d"," ","t","o">>, <<"s","h","o","u","l","d">>, <<"m","u","s","t">>, <<"h","a","v","e"," ","t","o">>, <<"d","o","n","'","t"," ","f","o","r","g","e","t">>, <<"p","l","e","a","s","e">>, <<"c","o","u","l","d"," ","y","o","u">>, <<"c","a","n"," ","y","o","u">>, <<"w","i","l","l"," ","y","o","u">>, <<"d","e","a","d","l","i","n","e">>, <<"b","y">>, <<"d","u","e">>, <<"a","s","a","p">>, <<"u","r","g","e","n","t">>, <<"i","m","p","o","r","t","a","n","t">> >>

\* MessageAnalyzer._might_contain_task
MightContainTask(message) == ContainsAny(Lower(message), MATaskKeywords)

\* No MessageAnalyzer has been constructed yet.
NoAnalyzer == [built |-> FALSE, use_openai |-> FALSE, use_llama |-> "unset"]

\* MessageAnalyzer.__init__: the attributes it sets, given whether
\* LlamaMessageAnalyzer() succeeded.  The OpenAI branch sets no use_llama.
NewAnalyzer(cfg, llamaOk) ==
    [ built |-> TRUE,
      use_openai |-> cfg.openai_api_key,
      use_llama |-> IF cfg.openai_api_key THEN "unset"
                    ELSE IF cfg.use_simple_analyzer THEN "False"
                    ELSE IF llamaOk THEN "True" ELSE "False" ]

StrategyRetryingLlama(m) == IF m.use_openai THEN "openai" ELSE "llama"

\* The branch _ai_analyze takes (lines 78 and 122).
Strategy(m) ==
    IF m.use_openai THEN "openai"
    ELSE IF m.use_llama = "True" THEN "llama"
    ELSE "simple"

\* The dict analyze_message returns; a key that is not set is NoValue, an
\* unset confidence has set = FALSE, an unset due_date has kind "none".
Analysis(contains, tasks, confidence, error) ==
    [ contains_task |-> contains, tasks |-> tasks, confidence |-> confidence,
      error |-> error, due_date |-> [kind |-> "none", date |-> NoDate, raw |-> << >>] ]

NoConfidence == [set |-> FALSE, n |-> 0]

\* One element of "tasks" in the JSON object the prompt of lines 80-97 asks
\* for, with the priority string the model chose.
OpenAITask(p) ==
    [ title |-> <<"S","h","i","p"," ","i","t">>, description |-> <<"S","h","i","p"," ","i","t">>, priority |-> p,
      assignee |-> "U0SENDER", estimated_time |-> "2 hours" ]

\* What the OpenAI client does: it raises, it answers with a content that
\* is no JSON, or with a JSON object.
OpenAIOutputs ==
    [ kind : {"raise", "invalid"},
      obj : { Analysis(FALSE, << >>, NoConfidence, NoValue) } ]
    \cup [ kind : {"object"},
           obj : { Analysis(c, t, k, NoValue) :
                     c \in BOOLEAN,
                     t \in { << >>, << OpenAITask("low"), OpenAITask("urgent") >> }
                           \cup { << OpenAITask(p) >> : p \in {"urgent", "critical"} },
                     k \in { NoConfidence } \cup
                           { [set |-> TRUE, n |-> n] : n \in {-50, 0, 90, 150} } } ]

\* lines 99-118: the parsed content as it is, or the error dict
OpenAIAnalysis(out) ==
    IF out.kind = "object" THEN out.obj
    ELSE Analysis(FALSE, << >>, NoConfidence,
                  IF out.kind = "raise" THEN "APIConnectionError" ELSE "JSONDecodeError")

\* lines 127-153: the analyzer's result in the expected format, or the
\* error dict when the analyzer raised
Converted(r) ==
    IF r.raised THEN Analysis(FALSE, << >>, NoConfidence, r.value)
    ELSE IF r.value.is_task /\ r.value.task_details.present
    THEN Analysis(TRUE,
                  << [ title |-> r.value.task_details.title,
                       description |-> r.value.task_details.description,
                       priority |-> r.value.task_details.priority,
                       assignee |-> "U0SENDER",
                       estimated_time |-> "Not specified" ] >>,
                  [set |-> TRUE, n |-> r.value.confidence], NoValue)
    ELSE Analysis(FALSE, << >>, [set |-> TRUE, n |-> r.value.confidence], NoValue)

\* MessageAnalyzer._ai_analyze, given what the backend did
AiAnalyze(m, message, now, out) ==
    IF Strategy(m) = "openai" THEN OpenAIAnalysis(out)
    ELSE IF Strategy(m) = "llama" THEN Converted(LlamaAnalyze(out, message, now))
    ELSE Converted(SimpleAnalyze(message, now, out))

\* the strftime('%Y-%m-%d') of lines 162-181
RelativeDate(r) ==
    IF r.raised THEN r
    ELSE Returned([kind |-> "date", date |-> r.value, raw |-> << >>])

\* \d{1,2}/\d{1,2}/\d{2,4} matches at i: the position it ends at, else 0
DateStrEnd(t, i) ==
    LET e1 == DigitRunEnd(t, i)
        e2 == DigitRunEnd(t, e1 + 2)
        e3 == DigitRunEnd(t, e2 + 2)
    IN  IF /\ e1 - i + 1 \in {1, 2}
           /\ MatchAt(t, <<"/">>, e1 + 1)
           /\ e2 - e1 - 1 \in {1, 2}
           /\ MatchAt(t, <<"/">>, e2 + 1)
           /\ e3 - e2 - 1 >= 2
        THEN Min(e3, e2 + 5)
        ELSE 0

\* re.search(word + r'(\d{1,2}/\d{1,2}/\d{2,4})', t).group(1), << >> when
\* there is no match
DateStrAfter(t, word) ==
    LET at == { i \in 1..Len(t) :
                  MatchAt(t, word, i) /\ DateStrEnd(t, i + Len(word)) # 0 }
    IN  IF at = {} THEN << >>
        ELSE LET i == CHOOSE a \in at : \A b \in at : a <= b
             IN  SubSeq(t, i + Len(word), DateStrEnd(t, i + Len(word)))

\* lines 183-195: the first of date_patterns[:3] that matches
SpecificDate(message) ==
    IF DateStrAfter(message, <<"b","y"," ">>) # << >>
    THEN [kind |-> "raw", date |-> NoDate, raw |-> DateStrAfter(message, <<"b","y"," ">>)]
    ELSE IF DateStrAfter(message, <<"o","n"," ">>) # << >>
    THEN [kind |-> "raw", date |-> NoDate, raw |-> DateStrAfter(message, <<"o","n"," ">>)]
    ELSE [kind |-> IF DateStrAfter(message, <<"b","e","f","o","r","e"," ">>) # << >> THEN "raw" ELSE "none",
          date |-> NoDate, raw |-> DateStrAfter(message, <<"b","e","f","o","r","e"," ">>)]

\* lines 170-195, for the match `in` of the 'in N units' pattern
InOrSpecificDate(message, now, in) ==
    IF in.unit = "day" THEN RelativeDate(PlusDays(now, in.amount))
    ELSE IF in.unit = "week" THEN RelativeDate(PlusWeeks(now, in.amount))
    ELSE IF in.unit = "month" THEN RelativeDate(PlusDays(now, in.amount * 30))
    ELSE Returned(SpecificDate(message))

\* MessageAnalyzer._extract_date: Returned(due date), or the OverflowError
\* of the timedelta addition
ExtractDate(message, now) ==
    IF Contains(Lower(message), <<"t","o","m","o","r","r","o","w">>) THEN RelativeDate(PlusDays(now, 1))
    ELSE IF Contains(Lower(message), <<"t","o","d","a","y">>) THEN RelativeDate(PlusDays(now, 0))
    ELSE IF Contains(Lower(message), <<"n","e","x","t"," ","w","e","e","k">>) THEN RelativeDate(PlusWeeks(now, 1))
    ELSE IF Contains(Lower(message), <<"n","e","x","t"," ","m","o","n","t","h">>) THEN RelativeDate(PlusDays(now, 30))
    ELSE InOrSpecificDate(message, now,
                          InPattern(Lower(message), << <<"d","a","y">>, <<"w","e","e","k">>, <<"m","o","n","t","h">> >>))

\* lines 63-68
WithDueDate(analysis, due) ==
    IF due.raised THEN due
    ELSE Returned([analysis EXCEPT !.due_date = due.value])

\* MessageAnalyzer.analyze_message: Returned(dict), or the exception that
\* leaves it
MAAnalyze(m, message, now, out) ==
    IF ~MightContainTask(message)
    THEN Returned(Analysis(FALSE, << >>, NoConfidence, NoValue))
    ELSE WithDueDate(AiAnalyze(m, message, now, out), ExtractDate(message, now))

\* The message texts handed to the analyzers.
AnalyzeTexts ==
    { << >>, <<"h","e","l","l","o">>, <<"p","l","e","a","s","e"," ","f","i","x"," ","t","h","e"," ","b","u","g">>, <<"i","s"," ","i","t"," ","d","u","e","?">>, <<"t","o","d","o"," ","i","n"," ","4","0","0","0","0","0","0"," ","d","a","y","s">>,
      <<"P","l","e","a","s","e"," ","f","i","n","i","s","h"," ","i","n"," ","4","0","0","0","0","0","0"," ","d","a","y","s">>, <<"r","e","m","i","n","d"," ","m","e"," ","t","o","m","o","r","r","o","w">>,
      <<"u","r","g","e","n","t",":"," ","s","e","n","d"," ","r","e","p","o","r","t"," ","b","y"," ","1","2","/","2","5","/","2","0","2","5">>,
      <<"s","c","h","e","d","u","l","e"," ","a"," ","m","e","e","t","i","n","g">> }

\* The message texts handed to SimpleMessageAnalyzer directly: those above,
\* and texts for each way the label is decided (by score, by a strong
\* indicator, by the question override, with and without a polite request,
\* with whitespace after the question mark), for a score past the cap, and
\* with a first sentence of fewer than, exactly and more than 50 characters.
SimpleTexts ==
    AnalyzeTexts \cup
    { <<"f","i","x"," ","i","t">>, <<"t","o","d","o",":"," ","f","i","x"," ","t","h","e"," ","b","u","g">>, <<"p","l","e","a","s","e"," ","w","a","i","t">>, <<"I","s"," ","t","h","e"," ","t","a","s","k"," ","d","u","e","?">>,
      <<"c","a","n"," ","y","o","u"," ","f","i","x"," ","i","t","?">>, <<"p","l","e","a","s","e"," ","f","i","x"," ","t","h","i","s","?">>, <<"p","l","e","a","s","e"," ","f","i","x"," ","t","h","i","s","?"," ">>,
      <<"w","h","y","?"," ","f","i","x"," ","i","t">>,
      <<"u","r","g","e","n","t",":"," ","p","l","e","a","s","e"," ","f","i","x"," ","a","n","d"," ","u","p","d","a","t","e"," ","t","h","e"," ","t","a","s","k"," ","a","s","a","p">>,
      <<"C","o","u","l","d"," ","y","o","u"," ","p","l","e","a","s","e"," ","r","e","v","i","e","w"," ","a","n","d"," ","s","e","n","d"," ","t","h","e"," ","u","r","g","e","n","t"," ","t","a","s","k"," ","u","p","d","a","t","e"," ","a","s","a","p","?">>,
      <<"p","l","e","a","s","e"," ","p","r","e","p","a","r","e"," ","t","h","e"," ","q","u","a","r","t","e","r","l","y"," ","b","u","d","g","e","t"," ","r","e","v","i","e","w"," ","d","o","c","u","m","e","n","t"," ","f","o","r"," ","t","h","e"," ","f","i","n","a","n","c","e"," ","t","e","a","m">>,
      <<"p","l","e","a","s","e"," ","s","e","n","d"," ","t","h","e"," ","s","i","g","n","e","d"," ","c","o","n","t","r","a","c","t"," ","t","o"," ","t","h","e"," ","l","e","g","a","l"," ","t","e","a","m",".">>,
      <<"p","l","e","a","s","e"," ","s","e","n","d"," ","t","h","e"," ","s","i","g","n","e","d"," ","c","o","n","t","r","a","c","t"," ","t","o"," ","t","h","e"," ","l","e","g","a","l"," ","t","e","a","m","s","."," ","T","h","a","n","k","s">>,
      <<"p","l","e","a","s","e","_","f","i","x","_","t","h","e","_","l","o","g","i","n","_","p","a","g","e","_","r","e","d","i","r","e","c","t","_","l","o","o","p","_","i","n","_","p","r","o","d","u","c","t","i","o","n","_","n","o","w">>,
      <<"p","l","e","a","s","e"," ","a","r","c","h","i","v","e"," ","t","h","e"," ","o","l","d"," ","b","u","i","l","d"," ","l","o","g","s"," ","f","r","o","m"," ","t","h","e"," ","s","e","r","v","e","r"," ","t","o","d","a","y">>,
      <<"p","l","e","a","s","e"," ","f","i","x"," ","i","t","."," ","T","h","e","n"," ","d","e","p","l","o","y"," ","t","h","e"," ","n","e","w"," ","b","u","i","l","d"," ","t","o"," ","t","h","e"," ","s","t","a","g","i","n","g"," ","s","e","r","v","e","r","s"," ","t","o","n","i","g","h","t">> }

\* What the backend of _ai_analyze can do with one message: the model's or
\* the client's outcome, or the order list(set(tags)) comes out in.  No
\* backend runs for a message the keyword check rejects.
BackendOutcomes(m, message) ==
    IF ~MightContainTask(message) THEN { << >> }
    ELSE IF Strategy(m) = "openai" THEN OpenAIOutputs
    ELSE IF Strategy(m) = "llama" THEN LlamaOutputs
    ELSE SimpleTagLists(message)

\* The texts handed to _extract_due_date: weekday names and end of week,
\* fixed-offset phrases, 'in N units', MM/DD and MM-DD, alone and combined,
\* and texts no rule matches.
DueTexts ==
    { <<"n","o"," ","d","a","t","e"," ","h","e","r","e">>, <<"M","o","n","d","a","y","s"," ","a","r","e"," ","s","l","o","w">>,
      <<"b","y"," ","m","o","n","d","a","y">>, <<"T","u","e","s","d","a","y">>, <<"w","e","d","n","e","s","d","a","y"," ","p","l","e","a","s","e">>, <<"b","e","f","o","r","e"," ","t","h","u","r","s","d","a","y">>, <<"f","r","i","d","a","y">>,
      <<"e","n","d"," ","o","f"," ","w","e","e","k">>, <<"E","O","W">>, <<"f","r","i","d","a","y"," ","o","r"," ","m","o","n","d","a","y">>,
      <<"t","o","d","a","y">>, <<"t","o","m","o","r","r","o","w">>, <<"n","e","x","t"," ","w","e","e","k">>, <<"n","e","x","t"," ","m","o","n","t","h">>, <<"e","o","d">>,
      <<"f","r","i","d","a","y"," ","e","o","d">>, <<"m","o","n","d","a","y",","," ","e","n","d"," ","o","f"," ","d","a","y">>, <<"t","o","m","o","r","r","o","w"," ","o","r"," ","f","r","i","d","a","y">>,
      <<"f","r","i","d","a","y"," ","i","n"," ","2"," ","d","a","y","s">>, <<"i","n"," ","2"," ","d","a","y","s",","," ","0","6","/","0","4">>,
      <<"i","n"," ","2","0"," ","h","o","u","r","s">>, <<"i","n"," ","1"," ","h","o","u","r">>, <<"i","n"," ","3"," ","d","a","y","s">>, <<"i","n"," ","2"," ","w","e","e","k","s">>, <<"i","n"," ","4","0","0","0","0","0","0"," ","d","a","y","s">>,
      <<"s","u","b","m","i","t"," ","0","6","/","0","4">>, <<"6","-","5">>, <<"1","2","/","2","5">>, <<"1","/","1","5">>, <<"2","/","2","9">>, <<"1","3","/","4","5">> }

\* the hours of the day a call is made at (0 stands for midnight exactly)
DueHours == {0, 9, 23}

\* the values of datetime.now() in a call of _extract_due_date: each day of
\* the week from Monday 2 June 2025, at each of the hours
DueNows == [y : {2025}, m : {6}, d : 2..8, hour : DueHours]

\* The texts handed to _extract_tags: no cluster, some clusters, five
\* clusters and an urgency word (6 tags), all seven clusters and an urgency
\* word (8 tags).
TagTexts ==
    { <<"h","e","l","l","o">>, <<"c","a","l","l"," ","m","e">>, <<"u","r","g","e","n","t"," ","f","i","x">>, <<"c","r","i","t","i","c","a","l",":"," ","r","e","p","l","y"," ","a","n","d"," ","d","e","p","l","o","y">>,
      <<"u","r","g","e","n","t",":"," ","c","a","l","l",","," ","e","m","a","i","l",","," ","r","e","v","i","e","w",","," ","f","i","x"," ","a","n","d"," ","p","l","a","n">>,
      <<"a","s","a","p",":"," ","c","a","l","l",","," ","e","m","a","i","l",","," ","r","e","v","i","e","w",","," ","f","i","x",","," ","w","r","i","t","e",","," ","p","l","a","n"," ","a","n","d"," ","r","e","s","e","a","r","c","h">> }

NoCall == [fn |-> "none"]

\* what an analyzer step leaves alone
AnalyzeFrame ==
    UNCHANGED << config, orchVars, mentionVars, botVars, workers, prefsVars >>

\* analyzer = MessageAnalyzer()  (slack_bot.py)
Construct ==
    /\ ~ma.built
    /\ \E llamaOk \in BOOLEAN : ma' = NewAnalyzer(config, llamaOk)
    /\ llamaInits' = IF ~config.openai_api_key /\ ~config.use_simple_analyzer
                     THEN llamaInits + 1 ELSE llamaInits
    /\ UNCHANGED call
    /\ AnalyzeFrame

\* analyzer.analyze_message(message, sender, channel) runs and returns
MA_Analyze ==
    /\ ma.built
    /\ call.fn = "none"
    /\ \E message \in AnalyzeTexts, now \in Nows :
         \E out \in BackendOutcomes(ma, message) :
            call' = [ fn |-> "MessageAnalyzer", message |-> message, now |-> now,
                      used |-> IF MightContainTask(message) THEN Strategy(ma) ELSE "none",
                      out |-> out,
                      result |-> MAAnalyze(ma, message, now, out) ]
    /\ UNCHANGED << ma, llamaInits >>
    /\ AnalyzeFrame

\* SimpleMessageAnalyzer().analyze_message(message) runs and returns
Simple_Analyze ==
    /\ call.fn = "none"
    /\ \E message \in SimpleTexts, now \in Nows :
         \E tags \in SimpleTagLists(message) :
            call' = [ fn |-> "SimpleMessageAnalyzer", message |-> message, now |-> now,
                      used |-> "simple", out |-> tags,
                      result |-> SimpleAnalyze(message, now, tags) ]
    /\ UNCHANGED << ma, llamaInits >>
    /\ AnalyzeFrame

\* llama_analyzer.analyze_message(message) runs and returns
Llama_Analyze ==
    /\ ma.built /\ ma.use_llama = "True"
    /\ call.fn = "none"
    /\ \E message \in AnalyzeTexts, now \in Nows, out \in LlamaOutputs :
         call' = [ fn |-> "LlamaMessageAnalyzer", message |-> message, now |-> now,
                   used |-> "llama", out |-> out,
                   result |-> LlamaAnalyze(out, message, now) ]
    /\ UNCHANGED << ma, llamaInits >>
    /\ AnalyzeFrame

\* SimpleMessageAnalyzer()._extract_due_date(message) runs and returns
ExtractDueDate_Call ==
    /\ call.fn = "none"
    /\ \E message \in DueTexts, now \in DueNows :
         call' = [ fn |-> "_extract_due_date", message |-> message, now |-> now,
                   result |-> SimpleExtractDueDate(message, now) ]
    /\ UNCHANGED << ma, llamaInits >>
    /\ AnalyzeFrame

\* _extract_due_date is called once more with the same message on the same
\* day, at some hour
ExtractDueDate_Again ==
    /\ call.fn = "_extract_due_date"
    /\ \E hour \in DueHours :
         call' = [ fn |-> "_extract_due_date twice", message |-> call.message,
                   now |-> call.now, result |-> call.result,
                   now2 |-> [call.now EXCEPT !.hour = hour],
                   result2 |-> SimpleExtractDueDate(call.message,
                                                    [call.now EXCEPT !.hour = hour]) ]
    /\ UNCHANGED << ma, llamaInits >>
    /\ AnalyzeFrame

\* SimpleMessageAnalyzer()._extract_tags(message) runs and returns, with the
\* tags in one of the orders list(set(tags)) can produce
ExtractTags_Call ==
    /\ call.fn = "none"
    /\ \E message \in TagTexts :
         \E tags \in SimpleTagLists(message) :
            call' = [ fn |-> "_extract_tags", message |-> message,
                      result |-> Returned(tags) ]
    /\ UNCHANGED << ma, llamaInits >>
    /\ AnalyzeFrame

\* The caller goes on with the result.
CallerResumes ==
    /\ call.fn # "none"
    /\ call' = NoCall
    /\ UNCHANGED << ma, llamaInits >>
    /\ AnalyzeFrame

AnalyzeNext ==
    \/ Construct
    \/ MA_Analyze
    \/ Simple_Analyze
    \/ Llama_Analyze
    \/ ExtractDueDate_Call
    \/ ExtractDueDate_Again
    \/ ExtractTags_Call
    \/ CallerResumes

----------------------------------------------------------------------------
(* slack_bot.py: analyze_and_create_tasks                                  *)

\* botAnalysis while no message is being handled
NoAnalysis == Raised("none", "")

\* d[key] = v on a dict
DictSet(d, key, v) ==
    [ k \in DOMAIN d \cup { key } |-> IF k = key THEN v ELSE d[k] ]

\* lines 120-121: task['sender'] = user; task['channel'] = channel
WithMetadata(task) == DictSet(DictSet(task, "sender", "U0SENDER"), "channel", "C01")

TasksToCreateWhateverTheVerdict(analysis) == analysis.tasks

\* lines 107-115: the tasks the for loop goes over; none when
\* analysis.get('contains_task') is false
TasksToCreate(analysis) ==
    IF analysis.contains_task THEN analysis.tasks ELSE << >>

\* What task_orchestrator.create_task(task) sends and returns when the HTTP
\* layer answers the i-th manager's request with resps[i]: every registered
\* manager is called in order and its exception is caught (lines 198-211).
RequestsOf(task) ==
    [ i \in 1..Len(managers) |-> ManagerRequest(managers[i], task) ]

ResultsOf(task, resps) ==
    [ i \in 1..Len(managers) |->
        Outcome(managers[i], ManagerCreateTask(managers[i], task, resps[i])) ]

\* any(r['success'] for r in results)
AnySuccess(rs) == \E i \in 1..Len(rs) : rs[i].success

\* one entry of botLog
LogEntry(ev, task, requests) == [ev |-> ev, task |-> task, requests |-> requests]

\* what a step of analyze_and_create_tasks leaves alone
BotFrame ==
    UNCHANGED << config, orchVars, mentionVars, analyzeVars, workers, prefsVars >>

\* line 105: analysis = analyzer.analyze_message(text, user, channel)
BotAnalyze ==
    /\ botPc = "idle"
    /\ ma.built
    /\ orchPc = "idle"
    /\ \E text \in AnalyzeTexts, now \in Nows :
         \E out \in BackendOutcomes(ma, text) :
            /\ botAnalysis' = MAAnalyze(ma, text, now, out)
            /\ botPc' = IF MAAnalyze(ma, text, now, out).raised
                        THEN "raised" ELSE "analyzed"
    /\ botLog' = << LogEntry("analyze_message", NoTask, << >>) >>
    /\ botIdx' = 0
    /\ botCreated' = 0
    /\ BotFrame

\* lines 107-115: the two early returns, each after a say(...) that returns
\* or raises, or on to the loop
BotCheck ==
    /\ botPc = "analyzed"
    /\ IF TasksToCreate(botAnalysis.value) = << >>
       THEN /\ \E sayOk \in BOOLEAN :
                 botPc' = IF sayOk THEN "returned" ELSE "raised"
            /\ UNCHANGED botIdx
       ELSE /\ botPc' = "loop"
            /\ botIdx' = 1
    /\ UNCHANGED << botAnalysis, botCreated, botLog >>
    /\ BotFrame

\* lines 119-129, one iteration of the for loop: create_task runs through
\* the registered managers and returns; the task is announced with say(...)
\* when a backend succeeded
BotCreateTask ==
    /\ botPc = "loop"
    /\ botIdx <= Len(TasksToCreate(botAnalysis.value))
    /\ LET task == WithMetadata(TasksToCreate(botAnalysis.value)[botIdx])
       IN  /\ botLog' = Append(botLog,
                               LogEntry("create_task", task, RequestsOf(task)))
           /\ \E resps \in [1..Len(managers) -> HttpResponses], sayOk \in BOOLEAN :
                IF AnySuccess(ResultsOf(task, resps))
                THEN /\ botCreated' = botCreated + 1
                     /\ botPc' = IF sayOk THEN "loop" ELSE "raised"
                ELSE /\ UNCHANGED botCreated
                     /\ botPc' = "loop"
    /\ botIdx' = botIdx + 1
    /\ UNCHANGED botAnalysis
    /\ BotFrame

\* line 124 when the backend of the h-th manager never answers: the
\* requests up to it have been sent and create_task does not return
BotCreateTaskHangs ==
    /\ botPc = "loop"
    /\ botIdx <= Len(TasksToCreate(botAnalysis.value))
    /\ \E h \in 1..Len(managers) :
         LET task == WithMetadata(TasksToCreate(botAnalysis.value)[botIdx])
         IN  botLog' = Append(botLog,
                              LogEntry("create_task", task,
                                       SubSeq(RequestsOf(task), 1, h)))
    /\ botPc' = "waiting"
    /\ UNCHANGED << botAnalysis, botIdx, botCreated >>
    /\ BotFrame

\* lines 131-132: the loop is over
BotFinish ==
    /\ botPc = "loop"
    /\ botIdx > Len(TasksToCreate(botAnalysis.value))
    /\ \E sayOk \in BOOLEAN :
         botPc' = IF botCreated > 0 /\ ~sayOk THEN "raised" ELSE "returned"
    /\ UNCHANGED << botAnalysis, botIdx, botCreated, botLog >>
    /\ BotFrame

\* the handler is over, by return or by exception; the next message
BotNextMessage ==
    /\ botPc \in {"returned", "raised"}
    /\ botPc' = "idle"
    /\ botAnalysis' = NoAnalysis
    /\ botIdx' = 0
    /\ botCreated' = 0
    /\ botLog' = << >>
    /\ BotFrame

\* slack_bot.py: the module is loaded (lines 26-27), then messages are
\* handled one after another
PipelineNext ==
    \/ Construct
    \/ OrchInit
    \/ BotAnalyze
    \/ BotCheck
    \/ BotCreateTask
    \/ BotCreateTaskHangs
    \/ BotFinish
    \/ BotNextMessage

----------------------------------------------------------------------------
(* slack_bot.py: the handlers of the settings actions, step by step.       *)
(* user_preferences maps a user to a dict object; a handler that finds no  *)
(* entry works on a new dict of its own until it stores it.                *)

\* the options of the settings menu (lines 229-237)
Levels == {"high", "medium", "low"}

\* the default of user_preferences.get(user, {...}) (lines 333-336, 351-354)
DefaultPrefs == [auto_analyze |-> TRUE, notification_level |-> "high"]

\* what a step of an action handler leaves alone
PrefsFrame ==
    UNCHANGED << config, orchVars, mentionVars, analyzeVars, botVars, workers >>

\* user_preferences.get(user, {...}): the stored dict object, or a new one
GetPrefs(user) ==
    IF user_preferences[user] = 0 THEN Len(dicts) + 1 ELSE user_preferences[user]

\* the dict objects after user_preferences.get(user, {...})
DictsAfterGet(user) ==
    IF user_preferences[user] = 0 THEN Append(dicts, DefaultPrefs) ELSE dicts

\* handle_toggle_auto_analyze, lines 330-336
ToggleGet(l, user) ==
    /\ listeners[l].pc = "idle"
    /\ dicts' = DictsAfterGet(user)
    /\ listeners' = [listeners EXCEPT ![l] =
          [ pc |-> "got", handler |-> "toggle", user |-> user,
            prefs |-> GetPrefs(user), new_level |-> "", wrote |-> FALSE ]]
    /\ UNCHANGED user_preferences
    /\ PrefsFrame

\* line 338: prefs['auto_analyze'] = not prefs['auto_analyze']
ToggleFlip(l) ==
    /\ listeners[l].pc = "got"
    /\ listeners[l].handler = "toggle"
    /\ dicts' = [dicts EXCEPT ![listeners[l].prefs].auto_analyze = ~@]
    /\ listeners' = [listeners EXCEPT
                       ![l].pc = "store",
                       ![l].wrote = ~dicts[listeners[l].prefs].auto_analyze]
    /\ UNCHANGED user_preferences
    /\ PrefsFrame

\* handle_change_notification_level, lines 346-354
ChangeGet(l, user, level) ==
    /\ listeners[l].pc = "idle"
    /\ dicts' = DictsAfterGet(user)
    /\ listeners' = [listeners EXCEPT ![l] =
          [ pc |-> "got", handler |-> "change", user |-> user,
            prefs |-> GetPrefs(user), new_level |-> level, wrote |-> FALSE ]]
    /\ UNCHANGED user_preferences
    /\ PrefsFrame

\* line 356: prefs['notification_level'] = new_level
ChangeSet(l) ==
    /\ listeners[l].pc = "got"
    /\ listeners[l].handler = "change"
    /\ dicts' = [dicts EXCEPT ![listeners[l].prefs].notification_level =
                                 listeners[l].new_level]
    /\ listeners' = [listeners EXCEPT ![l].pc = "store"]
    /\ UNCHANGED user_preferences
    /\ PrefsFrame

\* lines 339 and 357: user_preferences[user] = prefs, and the answer
StorePrefs(l) ==
    /\ listeners[l].pc = "store"
    /\ user_preferences' =
          [user_preferences EXCEPT ![listeners[l].user] = listeners[l].prefs]
    /\ listeners' = [listeners EXCEPT ![l].pc = "done"]
    /\ UNCHANGED dicts
    /\ PrefsFrame

PrefsNext ==
    \/ \E l \in Workers, user \in Users : ToggleGet(l, user)
    \/ \E l \in Workers : ToggleFlip(l)
    \/ \E l \in Workers, user \in Users, level \in Levels : ChangeGet(l, user, level)
    \/ \E l \in Workers : ChangeSet(l)
    \/ \E l \in Workers : StorePrefs(l)

----------------------------------------------------------------------------
(* Initial states                                                          *)

OrchStart ==
    /\ managers = << >>
    /\ orchPc = "new"
    /\ orchTask = NoTask
    /\ orchIdx = 0
    /\ results = << >>
    /\ callLog = << >>

\* mention_tracker.py lines 32-36
MentionStart ==
    /\ tracked_users = { AutoTrackedUser }
    /\ user_mentions = [u \in Users |-> << >>]
    /\ recorded = [u \in Users |-> << >>]
    /\ otherCount = 0

\* slack_bot.py before analyzer = MessageAnalyzer() has run
AnalyzeStart ==
    /\ ma = NoAnalyzer
    /\ llamaInits = 0
    /\ call = NoCall

\* slack_bot.py while no message is being handled
BotStart ==
    /\ botPc = "idle"
    /\ botAnalysis = NoAnalysis
    /\ botIdx = 0
    /\ botCreated = 0
    /\ botLog = << >>

\* a listener thread of slack_bot.py that has taken no action event
IdleListener ==
    [ pc |-> "idle", handler |-> "none", user |-> << >>, prefs |-> 0,
      new_level |-> "", wrote |-> FALSE ]

\* no listener thread has taken an event, and user_preferences = {}
\* (slack_bot.py line 30)
ThreadsStart ==
    /\ workers = [w \in Workers |-> IdleWorker]
    /\ listeners = [l \in Workers |-> IdleListener]
    /\ user_preferences = [u \in Users |-> 0]
    /\ dicts = << >>

\* The orchestrator reads the task-backend credentials only.
InitOrch ==
    /\ config \in { c \in Configs : ~c.openai_api_key /\ ~c.use_simple_analyzer }
    /\ OrchStart
    /\ MentionStart
    /\ AnalyzeStart
    /\ BotStart
    /\ ThreadsStart

SpecOrch == InitOrch /\ [][OrchNext]_vars

\* A create_task call that can take a step takes one: the interpreter keeps
\* running the thread that is in the call.  Each of its steps changes orchPc
\* or orchIdx.
SpecOrchLive == SpecOrch /\ WF_<< orchPc, orchIdx >>(CreateTaskStep)

\* The mention tracker reads no credential the model distinguishes.
InitMention ==
    /\ config = [ todoist_api_key |-> FALSE, notion_api_key |-> FALSE,
                  openai_api_key |-> FALSE, use_simple_analyzer |-> TRUE ]
    /\ OrchStart
    /\ MentionStart
    /\ AnalyzeStart
    /\ BotStart
    /\ ThreadsStart

SpecMention == InitMention /\ [][MentionNext]_vars

\* The listener threads start on the module's first state, or on the state
\* after MentionCap standard mentions were handled one after another.
InitTracker ==
    /\ config = [ todoist_api_key |-> FALSE, notion_api_key |-> FALSE,
                  openai_api_key |-> FALSE, use_simple_analyzer |-> TRUE ]
    /\ OrchStart
    /\ AnalyzeStart
    /\ BotStart
    /\ ThreadsStart
    /\ tracked_users = { AutoTrackedUser }
    /\ otherCount = 0
    /\ \E n \in {0, MentionCap} :
         /\ user_mentions = [u \in Users |-> IF u = AutoTrackedUser
                                             THEN StandardHistory(n) ELSE << >>]
         /\ recorded = [u \in Users |-> IF u = AutoTrackedUser
                                        THEN [i \in 1..n |-> i] ELSE << >>]

SpecTracker == InitTracker /\ [][TrackerNext]_vars

\* The analyzers read the OpenAI key and the USE_SIMPLE_ANALYZER flag.
InitAnalyze ==
    /\ config \in { c \in Configs : ~c.todoist_api_key /\ ~c.notion_api_key }
    /\ OrchStart
    /\ MentionStart
    /\ AnalyzeStart
    /\ BotStart
    /\ ThreadsStart

SpecAnalyze == InitAnalyze /\ [][AnalyzeNext]_vars

\* slack_bot.py reads the credentials of the task backends and of the
\* analysis strategy.
InitPipeline ==
    /\ config \in Configs
    /\ OrchStart
    /\ MentionStart
    /\ AnalyzeStart
    /\ BotStart
    /\ ThreadsStart

SpecPipeline == InitPipeline /\ [][PipelineNext]_vars

\* The listener threads start when each user has no stored preferences
\* (line 30) or has the dict an earlier settings action stored.
InitPrefs ==
    /\ config \in { c \in Configs : ~c.todoist_api_key /\ ~c.notion_api_key
                                     /\ ~c.openai_api_key /\ c.use_simple_analyzer }
    /\ OrchStart
    /\ MentionStart
    /\ AnalyzeStart
    /\ BotStart
    /\ workers = [w \in Workers |-> IdleWorker]
    /\ listeners = [l \in Workers |-> IdleListener]
    /\ \E stored \in SUBSET { AutoTrackedUser } :
         \E earlier \in [auto_analyze : BOOLEAN, notification_level : Levels] :
            /\ dicts = IF stored = { } THEN << >> ELSE << earlier >>
            /\ user_preferences = [u \in Users |-> IF u \in stored THEN 1 ELSE 0]

SpecPrefs == InitPrefs /\ [][PrefsNext]_vars

----------------------------------------------------------------------------
(* Properties of TaskOrchestrator.create_task                              *)

\* The HTTP layer let the manager's create_task return: a 200 response with
\* a JSON body (task_manager.py lines 53-54 and 145-146).
BackendReturned(resp) == resp.kind = "http" /\ resp.status = 200 /\ IsJson(resp.body)

CallsOf(i) == { k \in 1..Len(callLog) : callLog[k].idx = i }

\* C1: whichever registered backends raise, create_task calls create_task on
\* every registered backend exactly once and returns exactly one outcome per
\* registered backend; no backend exception leaves create_task or ends the
\* loop early.
C1_EveryBackendAttemptedOnce ==
    /\ orchPc # "raised"
    /\ orchPc \in {"loop", "done"} =>
          /\ \A i \in 1..Len(managers) : Cardinality(CallsOf(i)) <= 1
          /\ \A k \in 1..Len(callLog) : callLog[k].idx \in 1..Len(managers)
    /\ orchPc = "done" =>
          /\ Len(results) = Len(managers)
          /\ \A i \in 1..Len(managers) : Cardinality(CallsOf(i)) = 1

\* C1 witness: two backends, the first raised, and create_task returned.
C1_Witness ==
    /\ orchPc = "done"
    /\ Len(managers) = 2
    /\ ~BackendReturned(callLog[1].resp)
    /\ BackendReturned(callLog[2].resp)

\* C2: the backends are attempted one after another in registration order,
\* and the i-th outcome of the list is the outcome of the i-th registered
\* backend, whatever mix of successes and failures occurs.
C2_RegistrationOrder ==
    orchPc \in {"loop", "done"} =>
        /\ Len(results) = Len(callLog)
        /\ \A k \in 1..Len(callLog) :
              /\ callLog[k].idx = k
              /\ callLog[k].manager = managers[k]
              /\ results[k].platform = managers[k]
              /\ results[k].success = BackendReturned(callLog[k].resp)

\* C2 witness: Notion registered before Todoist, Notion succeeded and
\* Todoist failed.
C2_Witness ==
    /\ orchPc = "done"
    /\ managers = << "NotionManager", "TodoistManager" >>
    /\ results[1].success
    /\ ~results[2].success

\* C3: a backend's outcome has success=true and carries the backend's payload
\* exactly when its create_task returned, and success=false with the error
\* message otherwise; it is a function of that backend's own call only, so
\* neither the registration order nor another backend's failure changes it.
C3_OutcomeIsOwn ==
    \A i \in 1..Len(results) :
        LET r == results[i]
            own == callLog[i].resp
        IN  IF BackendReturned(own)
            THEN r.success /\ r.data = own.body /\ r.error = NoValue
            ELSE /\ ~r.success
                 /\ r.data = NoValue
                 /\ r.error # NoValue
                 /\ own.kind = "http" /\ own.status # 200 =>
                       r.error \in { "Failed to create Todoist task: " \o own.body,
                                     "Failed to create Notion task: " \o own.body }

\* C3 witness: the same backend class registered twice; one call failed, the
\* other succeeded and kept its payload.
C3_Witness ==
    /\ orchPc = "done"
    /\ managers = << "TodoistManager", "TodoistManager" >>
    /\ ~results[1].success /\ results[1].error = "Failed to create Todoist task: <html>"
    /\ results[2].success /\ results[2].data = "{id}"

----------------------------------------------------------------------------
(* Properties of the mention history                                       *)

Timestamps(h) == [i \in 1..Len(h) |-> h[i].timestamp]

\* C4: each user's stored history holds at most 100 records, and it is
\* always the last 100 (or all, if fewer) of the records appended for that
\* user since the history was last cleared, in arrival order: the oldest
\* are evicted first.
C4_HistoryIsLastHundred ==
    \A u \in Users :
        LET n == Len(recorded[u])
        IN  /\ Len(user_mentions[u]) <= MentionCap
            /\ Timestamps(user_mentions[u]) =
                  SubSeq(recorded[u], Max(1, n - MentionCap + 1), n)

\* C4 witness: more than 100 mentions of the tracked user were recorded and
\* the oldest ones are gone.
C4_Witness ==
    /\ Len(recorded[AutoTrackedUser]) > MentionCap + 1
    /\ Len(user_mentions[AutoTrackedUser]) = MentionCap
    /\ user_mentions[AutoTrackedUser][1].timestamp > 1

----------------------------------------------------------------------------
(* Properties of the analyzers                                             *)

\* C5: the strategy is resolved once, at construction.  LlamaMessageAnalyzer()
\* is attempted at most once; every analyze_message call takes the branch
\* the configuration and that one attempt selected (the rule-based
\* analyzer when the attempt failed); and no step after construction
\* changes the analyzer's attributes or attempts the initialization again.
C5_StrategyResolvedOnce ==
    /\ [](/\ llamaInits <= 1
          /\ (call.fn = "MessageAnalyzer" /\ call.used # "none") =>
                call.used = IF config.openai_api_key THEN "openai"
                            ELSE IF config.use_simple_analyzer THEN "simple"
                            ELSE IF ma.use_llama = "True" THEN "llama"
                            ELSE "simple")
    /\ [][ma.built => (ma' = ma /\ llamaInits' = llamaInits)]_vars

\* C5 witness: the one Llama initialization failed, and a later
\* analyze_message call used the rule-based analyzer.
C5_Witness ==
    /\ llamaInits = 1
    /\ ma.built /\ ma.use_llama = "False"
    /\ call.fn = "MessageAnalyzer"
    /\ call.used = "simple"

\* C6: SimpleMessageAnalyzer.analyze_message and
\* MessageAnalyzer.analyze_message return a result for every text and never
\* raise.
C6_AlwaysStructuredResult ==
    call.fn \in {"SimpleMessageAnalyzer", "MessageAnalyzer"} => ~call.result.raised

\* C7: when the text-generation call raises, or parsing or validating its
\* output raises, LlamaMessageAnalyzer.analyze_message does not raise and
\* returns is_task False, confidence 0.0, task_details None, with the error
\* text in analysis_metadata.
C7_FailureGivesSafeDefault ==
    ( /\ call.fn = "LlamaMessageAnalyzer"
      /\ \/ call.out.kind = "raise"
         \/ ValidateParsed(LlamaParse(call.out, call.message, call.now)).raised )
    => /\ ~call.result.raised
       /\ ~call.result.value.is_task
       /\ call.result.value.confidence = 0
       /\ ~call.result.value.task_details.present
       /\ call.result.value.error # NoValue

\* C7 witness: the model answered with a JSON object whose confidence is
\* null, float() raised in _validate_result, and the call returned the
\* default with the error recorded.
C7_Witness ==
    /\ call.fn = "LlamaMessageAnalyzer"
    /\ call.out.kind = "text" /\ call.out.json = "object"
    /\ call.out.obj.confidence.t = "null"
    /\ ~call.result.raised
    /\ call.result.value.error # NoValue

\* C8: when the model output has no {...} span or the span is no valid JSON,
\* LlamaMessageAnalyzer.analyze_message returns the validated keyword
\* fallback of the output and the original message, never the error
\* default; an original message with a fallback keyword is reported as a
\* task with its details.
C8_FallbackWhenNoJson ==
    ( /\ call.fn = "LlamaMessageAnalyzer"
      /\ call.out.kind = "text"
      /\ (~HasSpan(call.out.text) \/ call.out.json = "invalid") )
    => /\ ~call.result.raised
       /\ call.result.value.error = NoValue
       /\ call.result =
             ValidateParsed(ParseNaturalResponse(call.out.text, call.message, call.now))
       /\ ContainsAny(Lower(call.message), LlamaFallbackKeywords) =>
             /\ call.result.value.is_task
             /\ call.result.value.task_details.present
             /\ call.result.value.confidence = 70

\* C8 witness: the output holds a span json.loads rejects, the original
\* message holds a fallback keyword, and the call reported a task.
C8_Witness ==
    /\ call.fn = "LlamaMessageAnalyzer"
    /\ call.out.kind = "text"
    /\ HasSpan(call.out.text) /\ call.out.json = "invalid"
    /\ ContainsAny(Lower(call.message), LlamaFallbackKeywords)
    /\ call.result.value.is_task

\* C9: every confidence an analyze_message of the three analyzers returns
\* lies in [0, 1] (here in hundredths), under each strategy.
C9_ConfidenceInUnitInterval ==
    ( /\ call.fn \in {"SimpleMessageAnalyzer", "LlamaMessageAnalyzer", "MessageAnalyzer"}
      /\ ~call.result.raised ) =>
        IF call.fn = "MessageAnalyzer"
        THEN call.result.value.confidence.set =>
                call.result.value.confidence.n \in 0..100
        ELSE call.result.value.confidence \in 0..100

\* C10: in every result of the rule-based and of the Llama classifier,
\* task_details is not None exactly when is_task is true.
C10_DetailsIffTask ==
    ( /\ call.fn \in {"SimpleMessageAnalyzer", "LlamaMessageAnalyzer"}
      /\ ~call.result.raised )
    => (call.result.value.task_details.present <=> call.result.value.is_task)

\* The priority enum of a task.
Priorities == {"low", "medium", "high", "urgent"}

\* C11: the priority of every task any analysis path returns (rule-based,
\* Llama, MessageAnalyzer under each strategy) is one of low, medium, high,
\* urgent, whatever priority string the backend reported.
C11_PriorityInEnum ==
    (call.fn \in {"SimpleMessageAnalyzer", "LlamaMessageAnalyzer", "MessageAnalyzer"}
       /\ ~call.result.raised)
    => IF call.fn = "MessageAnalyzer"
       THEN \A i \in 1..Len(call.result.value.tasks) :
               call.result.value.tasks[i].priority \in Priorities
       ELSE call.result.value.task_details.present =>
               call.result.value.task_details.priority \in Priorities

\* The decision the claim C12 states, with "ends with '?'" read as given
\* (ends) or after stripping surrounding whitespace.
LabelRule(message, question) ==
    /\ \/ CountContained(Lower(message), SimpleTaskKeywords) >= 2
       \/ ContainsAny(Lower(message), StrongIndicators)
    /\ ~(question /\ ~ContainsAny(Lower(message), PoliteRequests))

\* C12 as stated: every result SimpleMessageAnalyzer.analyze_message returns
\* has is_task true iff (at least 2 task keywords occur, or a strong
\* indicator) and not (the text ends with '?' without a polite-request
\* phrase).
C12_LabelRuleAsStated ==
    (call.fn = "SimpleMessageAnalyzer" /\ ~call.result.raised)
    => (call.result.value.is_task <=>
           LabelRule(call.message, EndsWith(call.message, <<"?">>)))

\* C12 amended: the same, with the question test made on the text with its
\* surrounding whitespace stripped.
C12_LabelRule ==
    (call.fn = "SimpleMessageAnalyzer" /\ ~call.result.raised)
    => (call.result.value.is_task <=>
           LabelRule(call.message, EndsWith(Strip(call.message), <<"?">>)))

\* C12 witness: a text with two keywords and a strong indicator that ends in
\* '?' without a polite request was reported as not a task.
C12_Witness ==
    /\ call.fn = "SimpleMessageAnalyzer"
    /\ ~call.result.raised
    /\ CountContained(Lower(call.message), SimpleTaskKeywords) >= 2
    /\ ContainsAny(Lower(call.message), StrongIndicators)
    /\ EndsWith(call.message, <<"?">>)
    /\ ~call.result.value.is_task

\* C13: for a text with keyword score s, the confidence
\* SimpleMessageAnalyzer.analyze_message returns is min(0.9, 0.3 + 0.15*s)
\* when it reports a task and 1 minus that value when it reports not a
\* task (in hundredths), also when a strong indicator or the question
\* override forced the label.
C13_ConfidenceOfLabel ==
    (call.fn = "SimpleMessageAnalyzer" /\ ~call.result.raised)
    => LET s == CountContained(Lower(call.message), SimpleTaskKeywords)
           c == IF 30 + 15 * s < 90 THEN 30 + 15 * s ELSE 90
       IN  call.result.value.confidence =
              IF call.result.value.is_task THEN c ELSE 100 - c

\* C13 witness: a strong indicator forced the label of a text with score 1,
\* reported as a task with confidence 0.45.
C13_Witness ==
    /\ call.fn = "SimpleMessageAnalyzer"
    /\ ~call.result.raised
    /\ CountContained(Lower(call.message), SimpleTaskKeywords) = 1
    /\ call.result.value.is_task
    /\ call.result.value.confidence = 45

\* The weekday (Monday 0) the entry n of the pattern list names; end of
\* week and eow stand for Friday.
NamedWeekday(n) ==
    IF n = 5 THEN 0 ELSE IF n = 6 THEN 1 ELSE IF n = 7 THEN 2 ELSE IF n = 8 THEN 3 ELSE 4

\* C14: when the first date phrase that matches is a weekday name
\* monday..friday, or end of week / eow (Friday), the resolved due date
\* falls on that weekday, is strictly after the reference date and at most
\* 7 days after it, and is the reference date + 7 days when the reference
\* date is already that weekday.
C14_NextWeekday ==
    ( /\ call.fn = "_extract_due_date"
      /\ FirstDuePattern(Lower(call.message)) \in {5, 6, 7, 8, 9, 12, 13} )
    => /\ ~call.result.raised
       /\ call.result.value # NoDate
       /\ LET wd == NamedWeekday(FirstDuePattern(Lower(call.message)))
              due == Ymd2Ord(call.result.value.y, call.result.value.m, call.result.value.d)
              ref == Ymd2Ord(call.now.y, call.now.m, call.now.d)
          IN  /\ (due + 6) % 7 = wd
              /\ due > ref /\ due <= ref + 7
              /\ (ref + 6) % 7 = wd => due = ref + 7

\* C14 witness: 'friday' was resolved on a Friday, to the Friday a week
\* later.
C14_Witness ==
    /\ call.fn = "_extract_due_date"
    /\ call.message = <<"f","r","i","d","a","y">>
    /\ call.now = [y |-> 2025, m |-> 6, d |-> 6, hour |-> 9]
    /\ call.result = Returned([y |-> 2025, m |-> 6, d |-> 13])

\* The entries of the pattern list in the order C15 states: the
\* fixed-offset phrases (today, tomorrow, end of day, eod, next week, next
\* month), then the weekday names and end of week / eow.
StatedOrder == << 1, 2, 10, 11, 3, 4, 5, 6, 7, 8, 9, 12, 13 >>

\* The entry of the pattern list that comes first in StatedOrder among
\* those the text matches (0: none).
StatedFirst(lower) ==
    LET found == { k \in 1..Len(StatedOrder) :
                     SearchWord(lower, DuePatterns[StatedOrder[k]].pat) }
    IN  IF found = {} THEN 0
        ELSE StatedOrder[CHOOSE k \in found : \A j \in found : k <= j]

\* C15: _extract_due_date applies only the first rule that matches, in the
\* order fixed-offset phrases, weekday names and end of week, 'in N
\* hours/days/weeks', MM/DD; a text with a weekday name and 'eod' or 'end of
\* day' resolves to the reference date.
C15_RuleOrder ==
    call.fn = "_extract_due_date"
    => call.result = DueByRule(call.message, call.now,
                               StatedFirst(Lower(call.message)),
                               InPattern(Lower(call.message), InUnits))

\* C16: for a text whose only date phrase is MM/DD or MM-DD naming a valid
\* date, _extract_due_date returns that month and day in the reference year
\* when it is on or after the reference date, the reference date itself
\* included, and in the following year only when it is strictly before the
\* reference date.
C16_MonthDayYear ==
    ( /\ call.fn = "_extract_due_date"
      /\ FirstDuePattern(Lower(call.message)) = 0
      /\ InPattern(Lower(call.message), InUnits).unit = ""
      /\ MonthDay(call.message).found
      /\ ValidYmd(call.now.y, MonthDay(call.message).month, MonthDay(call.message).day) )
    => LET md == MonthDay(call.message)
           ref == Ymd2Ord(call.now.y, call.now.m, call.now.d)
       IN  call.result =
              Returned([ y |-> IF Ymd2Ord(call.now.y, md.month, md.day) >= ref
                               THEN call.now.y ELSE call.now.y + 1,
                         m |-> md.month, d |-> md.day ])

\* C17: two calls of _extract_due_date with the same text on the same
\* reference date return the same result, whatever the time of day of each.
C17_SameDateSameResult ==
    call.fn = "_extract_due_date twice" => call.result2 = call.result

\* a list of tags without duplicates and with at most 5 entries
DistinctAtMostFive(tags) ==
    /\ Len(tags) <= 5
    /\ \A i, j \in 1..Len(tags) : i # j => tags[i] # tags[j]

\* C18: the tags of every task a classifier produces hold no duplicates and
\* at most 5 entries: those of the rule-based extractor, and those the
\* Llama classifier returns, also when they come from the model's JSON.
C18_TagsDistinctAtMostFive ==
    /\ call.fn = "_extract_tags" => DistinctAtMostFive(call.result.value)
    /\ ( /\ call.fn \in {"SimpleMessageAnalyzer", "LlamaMessageAnalyzer"}
         /\ ~call.result.raised
         /\ call.result.value.task_details.present )
       => DistinctAtMostFive(call.result.value.task_details.tags)

\* C19: whenever the text contains an urgency keyword (urgent, asap,
\* critical), the tags _extract_tags returns include 'urgent'.
C19_UrgentTagKept ==
    ( /\ call.fn = "_extract_tags"
      /\ ContainsAny(Lower(call.message), UrgentTagWords) )
    => \E i \in 1..Len(call.result.value) : call.result.value[i] = "urgent"

\* C20: the rule-based title is at most 53 characters; when the first
\* sentence runs past 50 characters it is a prefix of at most 50 characters
\* that ends with a whole word (a space follows it in the text), followed by
\* '...'; when the first sentence has 50 characters or fewer it is that
\* sentence, trimmed, without ellipsis.
C20_TitleRule ==
    ( /\ call.fn = "SimpleMessageAnalyzer"
      /\ ~call.result.raised
      /\ call.result.value.is_task )
    => LET first == BeforeFirst(call.message, ".")
           title == call.result.value.task_details.title
       IN  /\ Len(title) <= 53
           /\ IF Len(first) > 50
              THEN \E n \in 0..50 :
                      /\ first[n + 1] = " "
                      /\ title = Strip(SubSeq(first, 1, n) \o <<".", ".", ".">>)
              ELSE title = Strip(first)

----------------------------------------------------------------------------
(* Properties of the registry, the pipeline and single handlers            *)

\* how many times the backend class b is in the registry reg
TimesRegistered(reg, b) == Cardinality({ i \in 1..Len(reg) : reg[i] = b })

\* C21: TaskOrchestrator() registers exactly one backend for each backend
\* whose credential is configured and none for a backend whose credential
\* is absent, and does not raise.
C21_OneBackendPerCredential ==
    [][ (orchPc = "new" /\ orchPc' # "new") =>
          /\ orchPc' = "idle"
          /\ TimesRegistered(managers', "TodoistManager") =
                (IF config.todoist_api_key THEN 1 ELSE 0)
          /\ TimesRegistered(managers', "NotionManager") =
                (IF config.notion_api_key THEN 1 ELSE 0) ]_vars

\* C27: _validate_result keeps the priority the AI backend reported when it
\* is one of low, medium, high, urgent, and puts a value of that set in the
\* place of any other.
C27_PriorityKeptInEnum ==
    ( /\ call.fn = "LlamaMessageAnalyzer"
      /\ call.out.kind = "text"
      /\ call.out.json = "object"
      /\ ~call.result.raised
      /\ call.result.value.task_details.present ) =>
        /\ call.result.value.task_details.priority \in Priorities
        /\ call.out.obj.task_details.priority \in Priorities =>
              call.result.value.task_details.priority =
                 call.out.obj.task_details.priority

\* SimpleMessageAnalyzer().analyze_message(message) at the clock value now
\* classifies the message as a task, whatever order its tags come out in
SimpleAccepts(message, now) ==
    \A tags \in SimpleTagLists(message) :
        /\ ~SimpleAnalyze(message, now, tags).raised
        /\ SimpleAnalyze(message, now, tags).value.is_task

\* C29: with the rule-based strategy selected, MessageAnalyzer.analyze_message
\* reports contains_task = true for exactly the texts that
\* SimpleMessageAnalyzer.analyze_message classifies as is_task = true.
C29_SameVerdictAsRuleBased ==
    ( /\ call.fn = "MessageAnalyzer"
      /\ Strategy(ma) = "simple" ) =>
        ( (~call.result.raised /\ call.result.value.contains_task)
            <=> SimpleAccepts(call.message, call.now) )

\* the users the text mentions
MentionedIn(text) ==
    { FindMentions(text)[j] : j \in 1..Len(FindMentions(text)) }

\* the user whose history the step made longer
Grown == CHOOSE u \in Users : Len(recorded'[u]) > Len(recorded[u])

\* C30: handling one message event appends exactly one record to the
\* history of each distinct tracked user the message mentions, also when the
\* text mentions the user more than once, and leaves every other user's
\* history and the set of tracked users unchanged.
C30_OneRecordPerMentionedUser ==
    [][ (\E u \in Users : Len(recorded'[u]) > Len(recorded[u])) =>
          /\ tracked_users' = tracked_users
          /\ \A u \in Users :
               recorded'[u] =
                 IF u \in tracked_users /\
                    u \in MentionedIn(user_mentions'[Grown][Len(user_mentions'[Grown])].text)
                 THEN Append(recorded[u],
                             user_mentions'[Grown][Len(user_mentions'[Grown])].timestamp)
                 ELSE recorded[u] ]_vars

\* C23: TaskOrchestrator.create_task eventually returns, even if a backend
\* never responds.
C23_CreateTaskReturns == (orchPc = "loop") ~> (orchPc = "done")

\* the message being handled was analysed as a task
AnalysedAsTask == ~botAnalysis.raised /\ botAnalysis.value.contains_task

C28_DueDateSentAsResolved ==
    \A k \in 2..Len(botLog) :
        /\ botAnalysis.value.due_date.kind # "none" =>
              /\ "due_date" \in DOMAIN botLog[k].task
              /\ botLog[k].task["due_date"] = botAnalysis.value.due_date
        /\ \A i \in 1..Len(botLog[k].requests) :
              botLog[k].requests[i].due_string =
                 DictGet(botLog[k].task, "due_date", NoValue)

----------------------------------------------------------------------------
(* Properties of concurrently handled events                               *)

\* a stop-tracking command of the user has begun and not completed
StopInProgress(user) ==
    \E w \in Workers : /\ workers[w].handler = "stop"
                       /\ workers[w].user = user
                       /\ workers[w].pc # "done"

\* C24: under any interleaving of concurrently handled events, once a
\* user's stop-tracking command has completed the user's mention history is
\* empty and stays empty until the user enables tracking again; no in-flight
\* message handler adds a record for a user who is no longer tracked.
C24_EmptyWhileUntracked ==
    \A user \in Users :
        (user \notin tracked_users /\ ~StopInProgress(user)) =>
            user_mentions[user] = << >>

\* C25: when messages mentioning the same tracked user are handled
\* concurrently, every record appended since the history was last cleared
\* is in the history unless it was evicted as one older than the newest
\* 100: append-then-trim never loses a newly appended record.
C25_NoAppendedRecordLost ==
    \A user \in Users :
        \A i \in 1..Len(recorded[user]) :
            i > Len(recorded[user]) - MentionCap =>
                \E k \in 1..Len(user_mentions[user]) :
                    user_mentions[user][k].timestamp = recorded[user][i]

\* the preferences stored for the user
StoredPrefs(user) == dicts[user_preferences[user]]

\* C26: when toggle_auto_analyze and change_notification_level for the same
\* user are handled concurrently, both changes are reflected in the user's
\* stored preferences afterwards, also for a user who had no stored
\* preferences before; neither update overwrites the other.
C26_BothChangesStored ==
    \A a \in Workers, b \in Workers :
        ( /\ listeners[a].pc = "done" /\ listeners[a].handler = "toggle"
          /\ listeners[b].pc = "done" /\ listeners[b].handler = "change"
          /\ listeners[a].user = listeners[b].user ) =>
            /\ StoredPrefs(listeners[a].user).auto_analyze = listeners[a].wrote
            /\ StoredPrefs(listeners[a].user).notification_level =
                  listeners[b].new_level

====
